---- MODULE Spec2Model ----
(***************************************************************************)
(* A model of rjobtop (src/qexec/rjobtop.py): the aggregation engine       *)
(* `aggregate`, the filter-pattern validation, and the refresh loop `draw` *)
(* with its UIState.                                                       *)
(*                                                                         *)
(* Conventions                                                             *)
(*   - Optional[T] is a sequence: None == <<>>, a value x is <<x>>.        *)
(*   - A str is a sequence of one-character strings.                       *)
(*   - Seconds are integers counting microseconds, so that the floor       *)
(*     1e-6 of max(interval, 1e-6) is the integer 1.                       *)
(*   - A float is an exact rational [n, d] in lowest terms with d > 0.     *)
(*     Floating-point rounding is not modelled.                            *)
(*   - A dict (a sample) is the sequence of its values in iteration order; *)
(*     the key of a ProcSample is its pid field.                           *)
(*   - ProcSample keeps pid, comm, cpu_ticks, rss_bytes, cmdline. ppid,    *)
(*     vms_bytes and start_ticks (and the age computed from the clock) are *)
(*     copied through by the code and read by no modelled decision.        *)
(***************************************************************************)
EXTENDS Integers, Sequences, FiniteSets, TLC

VARIABLES
    pc,         \* position of the running entry point
    s1,         \* first sample  (dict pid -> ProcSample)
    s2,         \* second sample (dict pid -> ProcSample)
    interval,   \* interval handed to aggregate, microseconds
    pattern,    \* Optional[str] handed to aggregate
    compiled,   \* Optional[re.Pattern] handed to aggregate
    agg,        \* Optional[Aggregates]: the snapshot aggregate returned
    state,      \* UIState
    pidset,     \* draw's local pidset
    cg_mem,     \* draw's local cg_mem, Optional[int]
    cycle,      \* number of loop iterations begun
    pushed,     \* history of every value appended to the two deques
    target,     \* what resolve_target_pids is asked and what the node answers
    bfs,        \* descendants_of's locals q and seen
    resolved,   \* the set resolve_target_pids returned last
    rc,         \* Optional[int]: the return code of show_job_summary_once
    keybuf,     \* the terminal's input queue: keys typed and not yet read
    calls,      \* how often each step has run, and the last non-empty
                \* resolution
    screen,     \* Optional: what draw last put on the terminal
    printed,    \* Optional: what print_text_snapshot wrote to stdout
    procfs,     \* what the reads of /proc/<pid>/* answer, per pid
    retry,      \* the locals of one call of retry_on_failure's wrapper
    sp,         \* the locals of one call of sample_procs
    dj          \* the argument and locals of one call of detect_job_cgroup

vars == <<pc, s1, s2, interval, pattern, compiled, agg, state, pidset, cg_mem,
          cycle, pushed, target, bfs, resolved, rc, keybuf, calls, screen,
          printed, procfs, retry, sp, dj>>

(***************************************************************************)
(* Bounds of the model.                                                    *)
(***************************************************************************)
MaxPid == 2
MaxTicks == 1
MaxCycles == 1
MaxHistCycles == 182
KeyCycles == 1
MaxEmaCycles == 3
MaxProc == 3
MaxMemberCycles == 3
MaxKeyCycles == 2
MaxKeyBuf == 1
MaxCgCycles == 2
MaxBudget == 3
MaxDetectPids == 3
MaxExtraPids == 2

(***************************************************************************)
(* Program constants.                                                      *)
(***************************************************************************)
CLK_TCK == 100
HISTORY_SIZE == 180
MaxAlternations == 50
MicrosPerSecond == 1000000

None == <<>>
Some(x) == <<x>>
IsNone(o) == o = <<>>
Val(o) == o[1]

Max(a, b) == IF a >= b THEN a ELSE b
Min(a, b) == IF a <= b THEN a ELSE b

(***************************************************************************)
(* Exact arithmetic standing for Python floats.                            *)
(***************************************************************************)
RECURSIVE GCD(_, _)
GCD(a, b) == IF b = 0 THEN a ELSE GCD(b, a % b)

Abs(a) == IF a < 0 THEN -a ELSE a

Rat(n, d) ==
    LET g == GCD(Abs(n), Abs(d))
        s == IF d < 0 THEN -1 ELSE 1
    IN [n |-> (s * n) \div g, d |-> (s * d) \div g]

Zero == [n |-> 0, d |-> 1]
RatOfInt(i) == [n |-> i, d |-> 1]
RatAdd(a, b) == Rat(a.n * b.d + b.n * a.d, a.d * b.d)
RatMul(a, b) == Rat(a.n * b.n, a.d * b.d)
RatLess(a, b) == a.n * b.d < b.n * a.d
RatLeq(a, b) == a.n * b.d <= b.n * a.d

(***************************************************************************)
(* Regular expressions.  A pattern is a str over the literals "R", "b" and *)
(* the metacharacters | ( ) + *.                                           *)
(***************************************************************************)
Quantifiers == {"+", "*"}

CountOf(c, p, upto) == Cardinality({i \in 1..upto : p[i] = c})

\* re.search of one of validate_regex's six dangerous_indicators: an opening
\* parenthesis, one or more characters other than ")", a quantifier, ")", and
\* a quantifier.  The six indicators are the four (quantifier, quantifier)
\* pairs over a [^)]+ body, and two of them again over a one-\w body.
DangerousIndicator(p) ==
    \E i \in 1..Len(p) :
        /\ p[i] = "("
        /\ \E j \in (i + 2)..(Len(p) - 2) :
              /\ p[j] \in Quantifiers
              /\ p[j + 1] = ")"
              /\ p[j + 2] \in Quantifiers
              /\ \A k \in (i + 1)..(j - 1) : p[k] # ")"

\* Whether re.compile(p) succeeds (no re.error): the parentheses balance and
\* every quantifier has something to repeat (a literal or a closed group).
\* Two quantifiers in a row (an error before Python 3.11, a possessive
\* quantifier since) occur in no pattern the model draws.
Compiles(p) ==
    /\ \A i \in 1..Len(p) : CountOf(")", p, i) <= CountOf("(", p, i)
    /\ CountOf(")", p, Len(p)) = CountOf("(", p, Len(p))
    /\ \A i \in 1..Len(p) :
          p[i] \in Quantifiers =>
              /\ i > 1
              /\ p[i - 1] \notin (Quantifiers \cup {"(", "|"})

validate_regex_no_alternation_limit(p) ==
    IF p = <<>> THEN TRUE
    ELSE IF DangerousIndicator(p) THEN FALSE
    ELSE Compiles(p)

validate_regex(p) ==
    IF p = <<>> THEN TRUE
    ELSE IF DangerousIndicator(p) THEN FALSE
    ELSE IF CountOf("|", p, Len(p)) > MaxAlternations THEN FALSE
    ELSE Compiles(p)

\* re.compile inside try/except re.error: the compiled pattern, or None.
TryCompile(p) == IF Compiles(p) THEN Some(p) ELSE None

\* The alternatives of a pattern made of literals and "|" only: the maximal
\* "|"-free segments <<first, last>> (an empty one has last = first - 1).
Alternatives(re) ==
    {<<i, j>> \in (1..(Len(re) + 1)) \X (0..Len(re)) :
        /\ i <= j + 1
        /\ (i = 1 \/ re[i - 1] = "|")
        /\ (j = Len(re) \/ re[j + 1] = "|")
        /\ \A k \in i..j : re[k] # "|"}

\* regex.search(text) is not None, for a regex of literals and "|".
Search(re, text) ==
    \E a \in Alternatives(re) :
        \E start \in 0..(Len(text) - (a[2] - a[1] + 1)) :
            \A k \in 0..(a[2] - a[1]) : text[start + 1 + k] = re[a[1] + k]

(***************************************************************************)
(* Samples (dict pid -> ProcSample).                                       *)
(***************************************************************************)
Keys(s) == {s[i].pid : i \in DOMAIN s}

\* s.get(pid), a missing key answered by a zero-tick ProcSample.
GetOrZero(s, pid) ==
    IF \E i \in DOMAIN s : s[i].pid = pid
    THEN Some(s[CHOOSE i \in DOMAIN s : s[i].pid = pid])
    ELSE Some([pid |-> pid, comm |-> <<>>, cpu_ticks |-> 0, rss_bytes |-> 0,
               cmdline |-> <<>>])

\* s.get(pid)
Get(s, pid) ==
    IF \E i \in DOMAIN s : s[i].pid = pid
    THEN Some(s[CHOOSE i \in DOMAIN s : s[i].pid = pid])
    ELSE None

(***************************************************************************)
(* aggregate                                                                *)
(***************************************************************************)
NewPidsSwapped(seen1, seen2) == Cardinality(seen1 \ seen2)

\* new_pids = len(seen2 - seen1)
NewPids(seen1, seen2) == Cardinality(seen2 \ seen1)

\* died_pids = len(seen1 - seen2)
DiedPids(seen1, seen2) == Cardinality(seen1 \ seen2)

\* max(interval, 1e-6)
IntervalFloor(i) == Max(i, 1)

\* fork_rate_hz = new_pids / max(interval, 1e-6)
ForkRate(new_pids, i) == Rat(new_pids * MicrosPerSecond, IntervalFloor(i))

\* The regex in force: the pre-compiled one if given, otherwise the pattern
\* compiled here when it is non-empty and passes validate_regex.
RegexInForce(pat, compiled_regex) ==
    IF ~IsNone(compiled_regex) THEN compiled_regex
    ELSE IF ~IsNone(pat) /\ Val(pat) # <<>> /\ validate_regex(Val(pat))
         THEN TryCompile(Val(pat))
         ELSE None

DTicksUnclamped(p1, p2) == p2.cpu_ticks - p1.cpu_ticks

\* d_ticks = max(0, p2.cpu_ticks - p1.cpu_ticks)
DTicks(p1, p2) == Max(0, p2.cpu_ticks - p1.cpu_ticks)

\* cpu_cores = (d_ticks / CLK_TCK) / max(interval, 1e-6)
CpuCores(d_ticks, i) == Rat(d_ticks * MicrosPerSecond, CLK_TCK * IntervalFloor(i))

RowIncludedCommOnly(regex, p2) ==
    \/ IsNone(regex)
    \/ Search(Val(regex), p2.comm)

\* (regex is None) or regex.search(p2.comm)
\*                 or (p2.cmdline and regex.search(p2.cmdline))
RowIncluded(regex, p2) ==
    \/ IsNone(regex)
    \/ Search(Val(regex), p2.comm)
    \/ (p2.cmdline # <<>> /\ Search(Val(regex), p2.cmdline))

AggRow(p2, cpu_cores) ==
    [pid |-> p2.pid, comm |-> p2.comm, cpu_cores |-> cpu_cores,
     rss_bytes |-> p2.rss_bytes, cmdline |-> p2.cmdline]

\* Loop bodies a slip could have produced: the totals accumulated under the
\* row filter; total_cpu assigned instead of accumulated.
AggStepTotalsFiltered(acc, p1, p2, i, regex) ==
    LET cpu_cores == CpuCores(DTicks(p1, p2), i)
    IN IF RowIncluded(regex, p2)
       THEN [total_cpu |-> RatAdd(acc.total_cpu, cpu_cores),
             total_rss |-> acc.total_rss + p2.rss_bytes,
             rows |-> Append(acc.rows, AggRow(p2, cpu_cores))]
       ELSE acc

AggStepTotalAssigned(acc, p1, p2, i, regex) ==
    LET cpu_cores == CpuCores(DTicks(p1, p2), i)
    IN [total_cpu |-> cpu_cores,
        total_rss |-> acc.total_rss + p2.rss_bytes,
        rows |-> IF RowIncluded(regex, p2)
                 THEN Append(acc.rows, AggRow(p2, cpu_cores))
                 ELSE acc.rows]

\* The loop body for a pid that has a baseline p1 in s1.
AggStep(acc, p1, p2, i, regex) ==
    LET cpu_cores == CpuCores(DTicks(p1, p2), i)
    IN [total_cpu |-> RatAdd(acc.total_cpu, cpu_cores),
        total_rss |-> acc.total_rss + p2.rss_bytes,
        rows |-> IF RowIncluded(regex, p2)
                 THEN Append(acc.rows, AggRow(p2, cpu_cores))
                 ELSE acc.rows]

\* A loop body that adds p2.rss_bytes before looking for the baseline.
AggBodyRssBeforeBaseline(acc, a1, p2, i, regex) ==
    LET p1 == Get(a1, p2.pid)
    IN IF IsNone(p1)
       THEN [acc EXCEPT !.total_rss = acc.total_rss + p2.rss_bytes]
       ELSE AggStep(acc, Val(p1), p2, i, regex)

\* for pid, p2 in s2.items(): p1 = s1.get(pid); if not p1: continue; ...
AggBody(acc, a1, p2, i, regex) ==
    LET p1 == Get(a1, p2.pid)
    IN IF IsNone(p1) THEN acc ELSE AggStep(acc, Val(p1), p2, i, regex)

RECURSIVE AggLoop(_, _, _, _, _, _)
AggLoop(acc, a1, a2, i, regex, k) ==
    IF k > Len(a2) THEN acc
    ELSE AggLoop(AggBody(acc, a1, a2[k], i, regex), a1, a2, i, regex, k + 1)

\* rows.sort(key=lambda r: r.cpu_cores, reverse=True): a stable sort, rows of
\* equal cpu_cores keep their order.
RECURSIVE InsertRow(_, _)
InsertRow(sorted, r) ==
    IF sorted = <<>> THEN <<r>>
    ELSE IF RatLess(Head(sorted).cpu_cores, r.cpu_cores)
         THEN <<r>> \o sorted
         ELSE <<Head(sorted)>> \o InsertRow(Tail(sorted), r)

RECURSIVE SortRows(_, _)
SortRows(rows, k) ==
    IF k = 0 THEN <<>> ELSE InsertRow(SortRows(rows, k - 1), rows[k])

aggregate(a1, a2, i, pat, compiled_regex) ==
    LET seen1 == Keys(a1)
        seen2 == Keys(a2)
        new_pids == NewPids(seen1, seen2)
        regex == RegexInForce(pat, compiled_regex)
        acc == AggLoop([total_cpu |-> Zero, total_rss |-> 0, rows |-> <<>>],
                       a1, a2, i, regex, 1)
    IN [pid_count |-> Cardinality(seen2),
        new_pids |-> new_pids,
        died_pids |-> DiedPids(seen1, seen2),
        fork_rate_hz |-> ForkRate(new_pids, i),
        total_cpu_cores |-> acc.total_cpu,
        total_rss_bytes |-> acc.total_rss,
        cgroup_mem_bytes |-> None,
        rows |-> SortRows(acc.rows, Len(acc.rows))]

(***************************************************************************)
(* UIState                                                                  *)
(***************************************************************************)
DEFAULT_INTERVAL == 1000000
DEFAULT_R_PATTERN == <<"R">>

\* UIState._compile_pattern
CompilePattern(pat) ==
    IF ~IsNone(pat) /\ Val(pat) # <<>> /\ validate_regex(Val(pat))
    THEN TryCompile(Val(pat))
    ELSE None

\* UIState.__init__(jobid, stepid, pid_root, interval, pattern, show_all=False)
UIStateInit(i, pat) ==
    [interval |-> i,
     pattern |-> pat,
     show_all |-> FALSE,
     sort_by_rss |-> FALSE,
     use_cgroup_mem |-> TRUE,
     fork_rate_ema |-> None,
     last_pidset |-> {},
     cgroup_kind_path |-> None,
     cpu_hist |-> <<>>,
     mem_hist |-> <<>>,
     compiled_pattern |-> CompilePattern(pat)]

(***************************************************************************)
(* The inputs the model draws.                                              *)
(***************************************************************************)
Pids == 1..MaxPid
\* cpu_ticks read from /proc/<pid>/stat: the two ends of 0..MaxTicks.
TickValues == {0, MaxTicks}

\* (comm, cmdline, rss_bytes) of a process: an R process whose command line
\* cannot be read, a shell whose command line runs R, and a plain shell.
ProcKinds ==
    {[comm |-> <<"R">>, cmdline |-> <<>>, rss_bytes |-> 1],
     [comm |-> <<"b">>, cmdline |-> <<"b", "R">>, rss_bytes |-> 2],
     [comm |-> <<"b">>, cmdline |-> <<"b">>, rss_bytes |-> 4]}

ProcSample(p, k, t) ==
    [pid |-> p, comm |-> k.comm, cpu_ticks |-> t, rss_bytes |-> k.rss_bytes,
     cmdline |-> k.cmdline]

\* The dict holding f[p] for the pids p = 1..upto that f gives a value, in
\* ascending pid order.
RECURSIVE DictOf(_, _)
DictOf(f, upto) ==
    IF upto = 0 THEN <<>>
    ELSE DictOf(f, upto - 1) \o
         (IF IsNone(f[upto]) THEN <<>>
          ELSE <<ProcSample(upto, Val(f[upto])[1], Val(f[upto])[2])>>)

PlainShell == [comm |-> <<"b">>, cmdline |-> <<"b">>, rss_bytes |-> 4]

\* First samples: only cpu_ticks of a first sample is read by aggregate.
Samples1 ==
    {DictOf(f, MaxPid) :
        f \in [Pids -> {None} \cup {Some(<<PlainShell, t>>) : t \in TickValues}]}

Samples2 ==
    {DictOf(f, MaxPid) :
        f \in [Pids -> {None} \cup
                       {Some(<<k, t>>) : k \in ProcKinds, t \in TickValues}]}

Intervals == {0, 500000, 2000000}

PatUncompilable == <<"(", "R">>
PatDangerous == <<"(", "R", "+", ")", "+">>
PatManyAlt ==
    [i \in 1..(2 * MaxAlternations + 3) |-> IF i % 2 = 1 THEN "R" ELSE "|"]

InvalidPatterns == {PatUncompilable, PatDangerous, PatManyAlt}

\* (pattern, compiled_regex) as the callers pass them: show_job_summary_once
\* passes a pattern alone, draw passes UIState's pattern with its compiled
\* form, or None and None when show_all is set.
PatternArgs ==
    {<<None, None>>, <<Some(<<>>), None>>, <<Some(<<"R">>), None>>,
     <<Some(<<"R">>), Some(<<"R">>)>>}
    \cup {<<Some(p), None>> : p \in InvalidPatterns}

(***************************************************************************)
(* Values of the variables an entry point does not use.                     *)
(***************************************************************************)
\* No call of resolve_target_pids is modelled step by step.
NoTarget ==
    [jobid |-> None, stepid |-> None, pid_root |-> None,
     env_job |-> None, env_step |-> None,
     ppid |-> [p \in {} |-> 0], scontrol |-> [kind |-> "missing", pids |-> {}]]

NotResolving ==
    /\ target = NoTarget
    /\ bfs = [q |-> <<>>, seen |-> {}]

\* Nothing has been drawn or printed.
NothingShown ==
    /\ screen = None
    /\ printed = None

\* No read of /proc and no retried call is modelled step by step.
NoProcfs == [p \in {} |-> 0]
NoRetry == [budget |-> 0, script |-> <<>>, caller |-> "none", attempt |-> 0,
            invoked |-> 0, waits |-> 0, last_exception |-> None,
            outcome |-> None]

NoSampleProcs == [todo |-> <<>>, pid |-> 0, stat |-> None]

NoDetect == [job_pids |-> <<>>, i |-> 1, counter |-> <<>>, result |-> None]

NotSampling ==
    /\ procfs = NoProcfs
    /\ retry = NoRetry
    /\ sp = NoSampleProcs
    /\ dj = NoDetect

\* initial: the answer of the resolution made before the loop; sampled_before:
\* the set the previous cycle sampled; cg_file: what the cgroup accounting
\* file held when the last aggregation was made (None: it cannot be read).
NoCalls ==
    [resolves |-> 0, samples |-> 0, sleeps |-> 0, aggregates |-> 0,
     renders |-> 0, polls |-> 0, last_nonempty |-> {}, initial |-> None,
     sampled_before |-> {}, cg_file |-> None]

\* The bookkeeping of one answer r of resolve_target_pids.
Resolved(c, r) ==
    [c EXCEPT !.resolves = @ + 1,
              !.last_nonempty = IF r # {} THEN r ELSE @,
              !.initial = IF c.resolves = 0 THEN Some(r) ELSE @]

(***************************************************************************)
(* aggregate as a function of its arguments.                                *)
(***************************************************************************)
InitAgg ==
    /\ pc = "aggregate_call"
    /\ s1 \in Samples1
    /\ s2 \in Samples2
    /\ interval = DEFAULT_INTERVAL
    /\ pattern = None
    /\ compiled = None
    /\ agg = None
    /\ state = UIStateInit(DEFAULT_INTERVAL, None)
    /\ pidset = {}
    /\ cg_mem = None
    /\ cycle = 0
    /\ pushed = [cpu |-> <<>>, mem |-> <<>>]
    /\ NotResolving
    /\ NothingShown
    /\ NotSampling
    /\ resolved = {}
    /\ rc = None
    /\ keybuf = <<>>
    /\ calls = NoCalls

\* draw: interval = max(0.1, state.interval)
DRAW_MIN_INTERVAL == 100000

\* The call show_job_summary_once makes: both samples non-empty (it returns 3
\* otherwise), the interval as given on the command line, the pattern string
\* of the command line and no compiled regex.
OnceCall(a1, a2, i, a) ==
    /\ a1 # <<>>
    /\ a2 # <<>>
    /\ i >= 0
    /\ ~IsNone(a[1])
    /\ IsNone(a[2])

\* The call draw makes: any two samples, an interval of at least 0.1 s, and
\* UIState's pattern with its compiled form, or None and None under show_all.
DrawCall(a1, a2, i, a) ==
    /\ i >= DRAW_MIN_INTERVAL
    /\ a[2] = CompilePattern(a[1])

\* agg = aggregate(s1, s2, interval, pattern, compiled_regex), for the
\* arguments either caller can pass.
AggregateCall ==
    /\ pc = "aggregate_call"
    /\ \E i \in Intervals, a \in PatternArgs :
          /\ OnceCall(s1, s2, i, a) \/ DrawCall(s1, s2, i, a)
          /\ interval' = i
          /\ pattern' = a[1]
          /\ compiled' = a[2]
          /\ agg' = Some(aggregate(s1, s2, i, a[1], a[2]))
    /\ pc' = "aggregate_done"
    /\ UNCHANGED <<s1, s2, state, pidset, cg_mem, cycle, pushed, target, bfs,
                   resolved, rc, keybuf, calls, screen, printed, procfs, retry,
                   sp, dj>>

NextAgg == AggregateCall

SpecAgg == InitAgg /\ [][NextAgg]_vars

(***************************************************************************)
(* draw: the refresh loop.  Each action is one step of the loop body; what  *)
(* the operating system answers (the resolved pids, the samples, the cgroup *)
(* file, the key) is drawn from the sets the action is given.               *)
(***************************************************************************)
MIN_INTERVAL == 100000
MAX_INTERVAL == 5000000
FORK_RATE_EMA_NEW == [n |-> 3, d |-> 10]
FORK_RATE_EMA_OLD == [n |-> 7, d |-> 10]

KeysOfUI == {"q", "a", "r", "c", "1", "2", "p", "none"}

ForkRateEmaSwapped(prev, inst) ==
    IF IsNone(prev)
    THEN inst
    ELSE RatAdd(RatMul(FORK_RATE_EMA_OLD, inst),
                RatMul(FORK_RATE_EMA_NEW, Val(prev)))

ForkRateEmaUndamped(prev, inst) ==
    IF IsNone(prev)
    THEN inst
    ELSE RatAdd(RatMul(FORK_RATE_EMA_NEW, inst), Val(prev))

\* Lines 678-681: the smoothed fork rate after a cycle whose instantaneous
\* rate is inst.
ForkRateEma(prev, inst) ==
    IF IsNone(prev)
    THEN inst
    ELSE RatAdd(RatMul(FORK_RATE_EMA_NEW, inst),
                RatMul(FORK_RATE_EMA_OLD, Val(prev)))

HistPushUnbounded(h, x) == Append(h, x)

\* deque(maxlen=HISTORY_SIZE).append(x)
HistPush(h, x) ==
    IF Len(h) >= HISTORY_SIZE THEN Append(Tail(h), x) ELSE Append(h, x)

\* UIState.update_pattern
UpdatePattern(st, new_pattern) ==
    [st EXCEPT !.pattern = new_pattern,
               !.compiled_pattern = CompilePattern(new_pattern)]

\* Lines 645-652: the initial resolve_target_pids and detect_job_cgroup.
\* answers: what resolve_target_pids can answer; detected: what
\* detect_job_cgroup can answer for a non-empty pidset.
DrawStart(answers, detected) ==
    /\ pc = "start"
    /\ \E r \in answers, d \in detected :
          /\ resolved' = r
          /\ pidset' = r
          /\ state' = [state EXCEPT
                          !.last_pidset = r,
                          !.cgroup_kind_path = IF r # {} THEN d ELSE None]
          /\ calls' = Resolved(calls, r)
    /\ pc' = "resolve"
    /\ UNCHANGED <<s1, s2, interval, pattern, compiled, agg, cg_mem, cycle,
                   pushed, target, bfs, rc, keybuf, screen, printed, procfs,
                   retry, sp, dj>>

SampledSetNoFallback(r, last) == r

\* Lines 660-663: the set an iteration samples, given the answer r of
\* resolve_target_pids and state.last_pidset.
SampledSet(r, last) == IF r # {} THEN r ELSE last

ResolveDetecting(answers, limit) ==
    /\ pc = "resolve"
    /\ cycle < limit
    /\ cycle' = cycle + 1
    /\ interval' = Max(DRAW_MIN_INTERVAL, state.interval)
    /\ \E r \in answers :
          /\ resolved' = r
          /\ calls' = [Resolved(calls, r) EXCEPT !.sampled_before = pidset]
          /\ pidset' = SampledSet(r, state.last_pidset)
          /\ state' = [state EXCEPT
                          !.last_pidset = IF r # {} THEN r ELSE @,
                          !.cgroup_kind_path =
                              IF r # {} /\ IsNone(@)
                              THEN Some(<<"unified", <<"/">>>>)
                              ELSE @]
    /\ pc' = "sample0"
    /\ UNCHANGED <<s1, s2, pattern, compiled, agg, cg_mem, pushed, target, bfs,
                   rc, keybuf, screen, printed, procfs, retry, sp, dj>>

\* Lines 655-663: the top of an iteration; limit bounds the iterations.
Resolve(answers, limit) ==
    /\ pc = "resolve"
    /\ cycle < limit
    /\ cycle' = cycle + 1
    /\ interval' = Max(DRAW_MIN_INTERVAL, state.interval)
    /\ \E r \in answers :
          /\ resolved' = r
          /\ calls' = [Resolved(calls, r) EXCEPT !.sampled_before = pidset]
          /\ pidset' = SampledSet(r, state.last_pidset)
          /\ state' = [state EXCEPT !.last_pidset = IF r # {} THEN r ELSE @]
    /\ pc' = "sample0"
    /\ UNCHANGED <<s1, s2, pattern, compiled, agg, cg_mem, pushed, target, bfs,
                   rc, keybuf, screen, printed, procfs, retry, sp, dj>>

\* Line 665: s1 = sample_procs(pidset); a pid whose stat cannot be read is
\* left out.
Sample0(samples) ==
    /\ pc = "sample0"
    /\ \E d \in samples : Keys(d) \subseteq pidset /\ s1' = d
    /\ pc' = "sleep"
    /\ calls' = [calls EXCEPT !.samples = @ + 1]
    /\ UNCHANGED <<s2, interval, pattern, compiled, agg, state, pidset, cg_mem,
                   cycle, pushed, target, bfs, resolved, rc, keybuf, screen,
                   printed, procfs, retry, sp, dj>>

SleepInterruptible ==
    /\ pc = "sleep"
    /\ pc' = IF keybuf # <<>> /\ Head(keybuf) = "q" THEN "quit" ELSE "sample1"
    /\ calls' = [calls EXCEPT !.sleeps = @ + 1]
    /\ UNCHANGED <<s1, s2, interval, pattern, compiled, agg, state, pidset,
                   cg_mem, cycle, pushed, target, bfs, resolved, rc, keybuf,
                   screen, printed, procfs, retry, sp, dj>>

\* Line 666: time.sleep(interval)
Sleep ==
    /\ pc = "sleep"
    /\ pc' = "sample1"
    /\ calls' = [calls EXCEPT !.sleeps = @ + 1]
    /\ UNCHANGED <<s1, s2, interval, pattern, compiled, agg, state, pidset,
                   cg_mem, cycle, pushed, target, bfs, resolved, rc, keybuf,
                   screen, printed, procfs, retry, sp, dj>>

\* Line 667: s2 = sample_procs(pidset)
Sample1(samples) ==
    /\ pc = "sample1"
    /\ \E d \in samples : Keys(d) \subseteq pidset /\ s2' = d
    /\ pc' = "aggregate"
    /\ calls' = [calls EXCEPT !.samples = @ + 1]
    /\ UNCHANGED <<s1, interval, pattern, compiled, agg, state, pidset, cg_mem,
                   cycle, pushed, target, bfs, resolved, rc, keybuf, screen,
                   printed, procfs, retry, sp, dj>>

\* Lines 668-685: aggregate, the cgroup memory reading, the fork-rate EMA and
\* the two history buffers.  cgread: what read_cgroup_memory_bytes can answer.
Aggregate(cgread) ==
    /\ pc = "aggregate"
    /\ \E cg \in cgread :
        LET pat == IF ~state.show_all THEN state.pattern ELSE None
            cre == IF ~state.show_all THEN state.compiled_pattern ELSE None
            a == aggregate(s1, s2, interval, pat, cre)
            cgm == IF state.use_cgroup_mem /\ ~IsNone(state.cgroup_kind_path)
                   THEN cg ELSE None
            ema == ForkRateEma(state.fork_rate_ema, a.fork_rate_hz)
            mem_used == IF ~IsNone(cgm) THEN Val(cgm) ELSE a.total_rss_bytes
        IN /\ pattern' = pat
           /\ compiled' = cre
           /\ agg' = Some([a EXCEPT !.cgroup_mem_bytes = cgm])
           /\ cg_mem' = cgm
           /\ state' = [state EXCEPT
                           !.fork_rate_ema = Some(ema),
                           !.cpu_hist = HistPush(@, a.total_cpu_cores),
                           !.mem_hist = HistPush(@, mem_used)]
           /\ pushed' = [cpu |-> Append(pushed.cpu, a.total_cpu_cores),
                         mem |-> Append(pushed.mem, mem_used)]
           /\ calls' = [calls EXCEPT !.aggregates = @ + 1, !.cg_file = cg]
    /\ pc' = "render"
    /\ UNCHANGED <<s1, s2, interval, pidset, cycle, target, bfs, resolved, rc,
                   keybuf, screen, printed, procfs, retry, sp, dj>>

\* Lines 769-790: one non-blocking getch and its effect.
HandleKey(st, ch) ==
    CASE ch = "a" -> [st EXCEPT !.show_all = ~@]
      [] ch = "r" -> IF ~IsNone(st.pattern) /\ Val(st.pattern) # <<>>
                        /\ Val(st.pattern) # DEFAULT_R_PATTERN
                     THEN UpdatePattern(st, Some(DEFAULT_R_PATTERN))
                     ELSE UpdatePattern(st, None)
      [] ch = "c" -> [st EXCEPT !.use_cgroup_mem = ~@]
      [] ch = "1" -> [st EXCEPT !.interval = Max(MIN_INTERVAL, @ \div 2)]
      [] ch = "2" -> [st EXCEPT !.interval = Min(MAX_INTERVAL, @ * 2)]
      [] ch = "p" -> [st EXCEPT !.sort_by_rss = ~@]
      [] OTHER -> st

\* h of stdscr.getmaxyx(): the terminal has 24 lines.
TERMINAL_LINES == 24
TABLE_Y == 7
SNAPSHOT_ROWS == 15

\* rows[:n]
FirstRows(rows, n) == SubSeq(rows, 1, Min(n, Len(rows)))

\* sorted(rows, key=lambda r: r.rss_bytes, reverse=True): a stable sort.
RECURSIVE InsertByRss(_, _)
InsertByRss(sorted, r) ==
    IF sorted = <<>> THEN <<r>>
    ELSE IF Head(sorted).rss_bytes < r.rss_bytes
         THEN <<r>> \o sorted
         ELSE <<Head(sorted)>> \o InsertByRss(Tail(sorted), r)

RECURSIVE SortByRss(_, _)
SortByRss(rows, k) ==
    IF k = 0 THEN <<>> ELSE InsertByRss(SortByRss(rows, k - 1), rows[k])

MemUsedBarRssFirst(cg, a) ==
    IF a.total_rss_bytes > 0 \/ IsNone(cg) THEN a.total_rss_bytes ELSE Val(cg)

\* Line 708: mem_used_bar = cg_mem if cg_mem is not None else agg.total_rss_bytes
MemUsedBar(cg, a) == IF ~IsNone(cg) THEN Val(cg) ELSE a.total_rss_bytes

\* Line 712
MemSource(cg) == IF ~IsNone(cg) THEN "[cgroup]" ELSE "[sum RSS]"

\* Lines 687-767: what draw puts on the terminal for the aggregate a, the
\* cgroup reading cg and the UIState st.
Screen(a, cg, st) ==
    LET rows == IF st.sort_by_rss THEN SortByRss(a.rows, Len(a.rows))
                ELSE a.rows
        max_rows == Max(1, TERMINAL_LINES - (TABLE_Y + 2))
    IN [total_cpu_cores |-> a.total_cpu_cores,
        mem_used |-> MemUsedBar(cg, a),
        mem_source |-> MemSource(cg),
        pid_count |-> a.pid_count,
        fork_rate_ema |-> st.fork_rate_ema,
        new_pids |-> a.new_pids,
        died_pids |-> a.died_pids,
        rows |-> FirstRows(rows, max_rows)]

\* print_text_snapshot, lines 588-605: what the one-shot mode writes.
print_text_snapshot(a) ==
    [pid_count |-> a.pid_count,
     total_cpu_cores |-> a.total_cpu_cores,
     mem_used |-> IF ~IsNone(a.cgroup_mem_bytes) THEN Val(a.cgroup_mem_bytes)
                  ELSE a.total_rss_bytes,
     cgroup |-> ~IsNone(a.cgroup_mem_bytes),
     new_pids |-> a.new_pids,
     died_pids |-> a.died_pids,
     rows |-> FirstRows(a.rows, SNAPSHOT_ROWS)]

RenderReadingKeys ==
    /\ pc = "render"
    /\ pc' = "poll"
    /\ state' = HandleKey(state, IF keybuf = <<>> THEN "none" ELSE Head(keybuf))
    /\ keybuf' = IF keybuf = <<>> THEN keybuf ELSE Tail(keybuf)
    /\ calls' = [calls EXCEPT !.renders = @ + 1]
    /\ screen' = Some(Screen(Val(agg), cg_mem, state))
    /\ UNCHANGED <<s1, s2, interval, pattern, compiled, agg, pidset, cg_mem,
                   cycle, pushed, target, bfs, resolved, rc, printed, procfs,
                   retry, sp, dj>>

\* Lines 687-767: the screen is drawn from agg, cg_mem and state; no variable
\* of the program is assigned.
Render ==
    /\ pc = "render"
    /\ pc' = "poll"
    /\ calls' = [calls EXCEPT !.renders = @ + 1]
    /\ screen' = Some(Screen(Val(agg), cg_mem, state))
    /\ UNCHANGED <<s1, s2, interval, pattern, compiled, agg, state, pidset,
                   cg_mem, cycle, pushed, target, bfs, resolved, rc, keybuf,
                   printed, procfs, retry, sp, dj>>

\* keys: what getch can return.  getch takes one key off the input queue
\* when there is one.
Poll(keys) ==
    /\ pc = "poll"
    /\ \E ch \in keys :
          /\ pc' = IF ch = "q" THEN "quit" ELSE "resolve"
          /\ state' = HandleKey(state, ch)
    /\ keybuf' = IF keybuf = <<>> THEN keybuf ELSE Tail(keybuf)
    /\ calls' = [calls EXCEPT !.polls = @ + 1]
    /\ UNCHANGED <<s1, s2, interval, pattern, compiled, agg, pidset, cg_mem,
                   cycle, pushed, target, bfs, resolved, rc, screen, printed,
                   procfs, retry, sp, dj>>

(***************************************************************************)
(* The refresh loop in an environment where every answer of the operating   *)
(* system can vary from step to step.                                       *)
(***************************************************************************)
\* The processes of the node: pid 1 is an R process whose command line cannot
\* be read, pid 2 a plain shell, every other pid a shell running R.
KindOf(p) ==
    IF p = 1 THEN [comm |-> <<"R">>, cmdline |-> <<>>, rss_bytes |-> 1]
    ELSE IF p = 2 THEN PlainShell
    ELSE [comm |-> <<"b">>, cmdline |-> <<"b", "R">>, rss_bytes |-> 2]

\* The dict sample_procs returns when exactly the pids in readable can be
\* read and every one of them has used t ticks so far.
LoopDict(readable, t) ==
    DictOf([p \in Pids |-> IF p \in readable THEN Some(<<KindOf(p), t>>)
                                               ELSE None],
           MaxPid)

MaxOf(S) == CHOOSE x \in S : \A y \in S : y <= x

\* What sample_procs(ps) can return when the processes have used t ticks:
\* every pid of ps, or every pid but the newest one (its stat cannot be read).
Readings(ps, t) ==
    {LoopDict(ps, t)} \cup
    (IF ps = {} THEN {} ELSE {LoopDict(ps \ {MaxOf(ps)}, t)})

ResolveOutcomes == {{}, {1}, Pids}
CgroupOfJob == <<"unified", "/job">>
DetectOutcomes == {None, Some(CgroupOfJob)}
CgBytes == 3
CgReads == {None, Some(CgBytes)}

\* The --pattern the monitor is started with.
InitialPatterns == {Some(DEFAULT_R_PATTERN)} \cup {Some(p) : p \in InvalidPatterns}

InitDraw(intervals, patterns) ==
    /\ pc = "start"
    /\ \E i \in intervals, pat \in patterns : state = UIStateInit(i, pat)
    /\ s1 = <<>>
    /\ s2 = <<>>
    /\ interval = 0
    /\ pattern = None
    /\ compiled = None
    /\ agg = None
    /\ pidset = {}
    /\ cg_mem = None
    /\ cycle = 0
    /\ pushed = [cpu |-> <<>>, mem |-> <<>>]
    /\ NotResolving
    /\ NothingShown
    /\ NotSampling
    /\ resolved = {}
    /\ rc = None
    /\ keybuf = <<>>
    /\ calls = NoCalls

Init == InitDraw({DEFAULT_INTERVAL}, InitialPatterns)

Next ==
    \/ DrawStart(ResolveOutcomes, DetectOutcomes)
    \/ Resolve(ResolveOutcomes, MaxCycles)
    \/ Sample0(Readings(pidset, 0))
    \/ Sleep
    \/ Sample1(Readings(pidset, 1))
    \/ Aggregate(CgReads)
    \/ Render
    \/ Poll(KeysOfUI)

Spec == Init /\ [][Next]_vars

(***************************************************************************)
(* A long run of the refresh loop: the job's processes are all readable,    *)
(* their CPU use and the resolved membership change from iteration to       *)
(* iteration in a fixed rhythm, no cgroup is found, and keys are pressed    *)
(* during the first KeyCycles iterations only.                              *)
(***************************************************************************)
ResolvedAt(c) == IF c % 2 = 0 THEN Pids ELSE {1}
TicksAt(c) == c % 3

InitHist == InitDraw({DEFAULT_INTERVAL}, {Some(DEFAULT_R_PATTERN)})

NextHist ==
    \/ DrawStart({Pids}, {None})
    \/ Resolve({ResolvedAt(cycle)}, MaxHistCycles)
    \/ Sample0({LoopDict(pidset, 0)})
    \/ Sleep
    \/ Sample1({LoopDict(pidset, TicksAt(cycle))})
    \/ Aggregate({None})
    \/ Render
    \/ Poll(IF cycle <= KeyCycles THEN KeysOfUI ELSE {"none"})

SpecHist == InitHist /\ [][NextHist]_vars

(***************************************************************************)
(* The refresh loop over a job whose newest process may or may not be       *)
(* readable at either sample, so that a cycle sees a fork, a death or       *)
(* neither; the refresh interval can be doubled between cycles.             *)
(***************************************************************************)
InitEma == InitDraw({DEFAULT_INTERVAL}, {Some(DEFAULT_R_PATTERN)})

NextEma ==
    \/ DrawStart({Pids}, {None})
    \/ Resolve({Pids}, MaxEmaCycles)
    \/ Sample0(Readings(pidset, 0))
    \/ Sleep
    \/ Sample1(Readings(pidset, 1))
    \/ Aggregate({None})
    \/ Render
    \/ Poll({"none", "2", "q"})

SpecEma == InitEma /\ [][NextEma]_vars

(***************************************************************************)
(* Properties of aggregate, checked under SpecAgg.                          *)
(***************************************************************************)
AggDone == pc = "aggregate_done"

\* What aggregate returns for the same samples and interval with no filter.
Unfiltered == aggregate(s1, s2, interval, None, None)

RowPids(rows) == {rows[k].pid : k \in DOMAIN rows}
RowSet(rows) == {rows[k] : k \in DOMAIN rows}

RECURSIVE SumCpu(_, _)
SumCpu(rows, k) ==
    IF k = 0 THEN Zero ELSE RatAdd(SumCpu(rows, k - 1), rows[k].cpu_cores)

RECURSIVE SumRss(_, _)
SumRss(s, k) == IF k = 0 THEN 0 ELSE SumRss(s, k - 1) + s[k].rss_bytes

Diffable == Keys(s1) \cap Keys(s2)
OnlyInT1 == Keys(s2) \ Keys(s1)

EntryOf(s, p) == s[CHOOSE k \in DOMAIN s : s[k].pid = p]

\* C1: whatever pattern (none, empty, valid, invalid, pre-compiled) is passed,
\* aggregate returns the totals and counts it returns with no pattern; the
\* pattern only selects which of the unfiltered rows are in the row list.
C1_TotalsIndependentOfFilter ==
    AggDone =>
        LET u == Unfiltered
        IN /\ Val(agg).total_cpu_cores = u.total_cpu_cores
           /\ Val(agg).total_rss_bytes = u.total_rss_bytes
           /\ Val(agg).pid_count = u.pid_count
           /\ Val(agg).new_pids = u.new_pids
           /\ Val(agg).died_pids = u.died_pids
           /\ RowSet(Val(agg).rows) \subseteq RowSet(u.rows)

\* A filter removed a row of a process that used CPU and memory.
C1_Witness ==
    /\ AggDone
    /\ pattern = Some(<<"R">>)
    /\ Len(Val(agg).rows) < Len(Unfiltered.rows)
    /\ \E p \in Diffable \ RowPids(Val(agg).rows) :
          EntryOf(s2, p).cpu_ticks > EntryOf(s1, p).cpu_ticks

\* C2 (as claimed): total_rss_bytes is the sum of rss_bytes over every process
\* of the second sample, those absent from the first sample included.
C2_TotalRssOverAllOfT1 ==
    AggDone => Val(agg).total_rss_bytes = SumRss(s2, Len(s2))

\* C3: every per-process CPU value is >= 0, it is 0 when the second tick count
\* is below the first, and so the total is >= 0.
C3_CpuNeverNegative ==
    AggDone =>
        /\ \A k \in DOMAIN Val(agg).rows :
              LET r == Val(agg).rows[k]
              IN /\ RatLeq(Zero, r.cpu_cores)
                 /\ (EntryOf(s2, r.pid).cpu_ticks < EntryOf(s1, r.pid).cpu_ticks
                        => r.cpu_cores = Zero)
        /\ RatLeq(Zero, Val(agg).total_cpu_cores)

\* A process whose tick count went down has a row, with zero CPU.
C3_Witness ==
    /\ AggDone
    /\ \E k \in DOMAIN Val(agg).rows :
          LET r == Val(agg).rows[k]
          IN /\ EntryOf(s2, r.pid).cpu_ticks < EntryOf(s1, r.pid).cpu_ticks
             /\ r.cpu_cores = Zero

RECURSIVE Restrict(_, _, _)
Restrict(s, keep, k) ==
    IF k = 0 THEN <<>>
    ELSE Restrict(s, keep, k - 1) \o
         (IF s[k].pid \in keep THEN <<s[k]>> ELSE <<>>)

\* interval seconds as a rational
Seconds(i) == Rat(i, MicrosPerSecond)

\* C5 (as claimed): fork_rate_hz = new_pids / interval, that is
\* fork_rate_hz * interval = new_pids, for every pair of samples.
C5_ForkRateIsNewOverInterval ==
    AggDone => RatMul(Val(agg).fork_rate_hz, Seconds(interval))
                   = RatOfInt(Val(agg).new_pids)

\* C5 (amended): new_pids = |pids(T1) \ pids(T0)|, died_pids = |pids(T0) \
\* pids(T1)|, pid_count = |pids(T1)| = |pids(T0)| + new_pids - died_pids, and
\* fork_rate_hz = new_pids / max(interval, 1e-6), which is new_pids / interval
\* for every interval of at least one microsecond.
C5_MembershipDelta ==
    AggDone =>
        LET T0 == {s1[k].pid : k \in DOMAIN s1}
            T1 == {s2[k].pid : k \in DOMAIN s2}
            a == Val(agg)
        IN /\ a.new_pids = Cardinality(T1 \ T0)
           /\ a.died_pids = Cardinality(T0 \ T1)
           /\ a.pid_count = Cardinality(T1)
           /\ a.pid_count = Cardinality(T0) + a.new_pids - a.died_pids
           /\ RatMul(a.fork_rate_hz, Seconds(Max(interval, 1)))
                  = RatOfInt(a.new_pids)
           /\ (interval >= 1 =>
                  RatMul(a.fork_rate_hz, Seconds(interval))
                      = RatOfInt(a.new_pids))

\* One pid appeared and one vanished over an interval of 2 s: rate 0.5/s.
C5_Witness ==
    /\ AggDone
    /\ interval = 2 * MicrosPerSecond
    /\ Cardinality(Keys(s2) \ Keys(s1)) = 1
    /\ Cardinality(Keys(s1) \ Keys(s2)) = 1
    /\ Val(agg).new_pids = 1
    /\ Val(agg).died_pids = 1
    /\ Val(agg).fork_rate_hz = [n |-> 1, d |-> 2]

\* C6: a pid present only in the second sample has no row and adds nothing
\* to total_cpu_cores (the total is that of the second sample without such
\* pids), and it is counted in new_pids and in pid_count.
C6_OnlyInT1HasNoRow ==
    AggDone =>
        /\ RowPids(Val(agg).rows) \cap OnlyInT1 = {}
        /\ Val(agg).total_cpu_cores =
              aggregate(s1, Restrict(s2, Keys(s1), Len(s2)), interval,
                        pattern, compiled).total_cpu_cores
        /\ Val(agg).new_pids = Cardinality(OnlyInT1)
        /\ Val(agg).pid_count = Cardinality(Diffable) + Cardinality(OnlyInT1)

\* A busy pid present only in the second sample, beside a diffable one, with
\* no filter that could have removed its row.
C6_Witness ==
    /\ AggDone
    /\ pattern = None
    /\ Diffable # {}
    /\ \E p \in OnlyInT1 : EntryOf(s2, p).cpu_ticks > 0
    /\ Val(agg).new_pids >= 1

C9_RowIffCommOrCmdlineMatches ==
    (/\ AggDone
     /\ ~IsNone(pattern)
     /\ Val(pattern) # <<>>
     /\ validate_regex(Val(pattern))) =>
        \A p \in Diffable :
            (p \in RowPids(Val(agg).rows)) <=>
                \/ Search(Val(pattern), EntryOf(s2, p).comm)
                \/ Search(Val(pattern), EntryOf(s2, p).cmdline)

\* A row kept by its command line alone, a row kept by its command name
\* alone, and a diffable process that matched neither.
C9_Witness ==
    /\ AggDone
    /\ pattern = Some(<<"R">>)
    /\ \E p \in RowPids(Val(agg).rows) :
          /\ ~Search(<<"R">>, EntryOf(s2, p).comm)
          /\ Search(<<"R">>, EntryOf(s2, p).cmdline)
    /\ Diffable \ RowPids(Val(agg).rows) # {}

(***************************************************************************)
(* Properties of the refresh loop.                                          *)
(***************************************************************************)
\* C8: a pattern that fails validation (uncompilable, nested unbounded
\* quantifiers, more than 50 alternations) is treated as no filter: for the
\* samples of an iteration aggregate returns the unfiltered row list, and the
\* snapshot of an iteration whose UIState holds such a pattern has the
\* unfiltered row list.
C8_InvalidPatternIsNoFilter ==
    /\ pc \in {"aggregate", "render", "poll"} =>
          \A p \in InvalidPatterns :
              aggregate(s1, s2, interval, Some(p), None).rows = Unfiltered.rows
    /\ (/\ pc \in {"render", "poll"}
        /\ \E p \in InvalidPatterns : state.pattern = Some(p)) =>
          /\ IsNone(state.compiled_pattern)
          /\ Val(agg).rows = Unfiltered.rows

\* UIState holds the pattern of 51 alternations of "R", the filter is on, and
\* the snapshot has the row of the plain shell, which "R" does not match.
C8_Witness ==
    /\ pc = "render"
    /\ state.pattern = Some(PatManyAlt)
    /\ ~state.show_all
    /\ \E k \in DOMAIN Val(agg).rows :
          LET r == Val(agg).rows[k]
          IN ~Search(<<"R">>, r.comm) /\ ~Search(<<"R">>, r.cmdline)

\* The last n elements of a sequence.
LastN(q, n) == SubSeq(q, Len(q) - n + 1, Len(q))

\* The number of iterations that have pushed their readings.
PushesDone ==
    IF pc \in {"sample0", "sleep", "sample1", "aggregate"}
    THEN cycle - 1 ELSE cycle

\* C10: each history buffer holds at most HISTORY_SIZE entries; after k
\* pushes (one per iteration) it holds exactly the last min(k, HISTORY_SIZE)
\* readings in push order; no step of the loop and no key empties it.
C10_HistoryIsLastReadings ==
    /\ Len(state.cpu_hist) <= HISTORY_SIZE
    /\ Len(state.mem_hist) <= HISTORY_SIZE
    /\ Len(pushed.cpu) = PushesDone
    /\ Len(pushed.mem) = PushesDone
    /\ state.cpu_hist = LastN(pushed.cpu, Min(PushesDone, HISTORY_SIZE))
    /\ state.mem_hist = LastN(pushed.mem, Min(PushesDone, HISTORY_SIZE))

\* After HISTORY_SIZE + 1 pushes the first reading has left both buffers and
\* the newest is their last entry.
C10_Witness ==
    /\ Len(pushed.cpu) = HISTORY_SIZE + 1
    /\ Len(state.cpu_hist) = HISTORY_SIZE
    /\ state.cpu_hist[1] = pushed.cpu[2]
    /\ state.cpu_hist[1] # pushed.cpu[1]
    /\ state.cpu_hist[HISTORY_SIZE] = pushed.cpu[HISTORY_SIZE + 1]
    /\ state.mem_hist[1] = pushed.mem[2]
    /\ state.mem_hist[1] # pushed.mem[1]
    /\ state.mem_hist[HISTORY_SIZE] = pushed.mem[HISTORY_SIZE + 1]

(***************************************************************************)
(* The refresh loop over a job whose resolved membership changes from       *)
(* cycle to cycle and may come back empty; every resolved process is        *)
(* readable.                                                                *)
(***************************************************************************)
InitMembers == InitDraw({DEFAULT_INTERVAL}, {Some(DEFAULT_R_PATTERN)})

NextMembers ==
    \/ DrawStart(ResolveOutcomes, {None})
    \/ Resolve(ResolveOutcomes, MaxMemberCycles)
    \/ Sample0({LoopDict(pidset, 0)})
    \/ Sleep
    \/ Sample1({LoopDict(pidset, 1)})
    \/ Aggregate({None})
    \/ Render
    \/ Poll({"none", "q"})

SpecMembers == InitMembers /\ [][NextMembers]_vars

(***************************************************************************)
(* The refresh loop with a user at the keyboard: a key can be typed at any  *)
(* moment and waits in the terminal's input queue until a getch reads it.   *)
(* The job has a cgroup and all its processes are readable.                 *)
(***************************************************************************)
TypedKeys == KeysOfUI \ {"none"}

\* The number of getch calls still to come when the loop runs limit cycles.
PollsLeft(limit) ==
    IF pc \in {"start", "resolve"} THEN limit - cycle
    ELSE IF pc = "quit" THEN 0
    ELSE limit - cycle + 1

\* The user types a key; no more keys are typed than the run will read, and
\* at most MaxKeyBuf wait in the queue.
KeyPress(keys, limit) ==
    /\ pc # "quit"
    /\ Len(keybuf) < Min(MaxKeyBuf, PollsLeft(limit))
    /\ \E k \in keys : keybuf' = Append(keybuf, k)
    /\ UNCHANGED <<pc, s1, s2, interval, pattern, compiled, agg, state, pidset,
                   cg_mem, cycle, pushed, target, bfs, resolved, rc, calls,
                   screen, printed, procfs, retry, sp, dj>>

\* stdscr.getch() under nodelay(True): the oldest waiting key, or -1.
NextKey == IF keybuf = <<>> THEN "none" ELSE Head(keybuf)

\* --interval values: below MIN_INTERVAL, the default, above 2 * MAX_INTERVAL.
StartIntervals == {10000, DEFAULT_INTERVAL, 20000000}

InitKeys == InitDraw(StartIntervals, {Some(DEFAULT_R_PATTERN)})

LoopStepKeys ==
    \/ DrawStart({Pids}, {Some(CgroupOfJob)})
    \/ Resolve({Pids}, MaxKeyCycles)
    \/ Sample0({LoopDict(pidset, 0)})
    \/ Sleep
    \/ Sample1({LoopDict(pidset, 1)})
    \/ Aggregate({Some(CgBytes)})
    \/ Render
    \/ Poll({NextKey})

NextKeys ==
    \/ LoopStepKeys
    \/ KeyPress(TypedKeys, MaxKeyCycles)

\* A step of the program: the position changes.  Under NextKeys these are
\* the steps of LoopStepKeys, and one is possible exactly when the program
\* has not quit and, at the top of the loop, the cycles modelled are not
\* used up.
ProgramStep ==
    /\ pc # "quit"
    /\ pc = "resolve" => cycle < MaxKeyCycles
    /\ pc' \in {"resolve", "sample0", "sleep", "sample1", "aggregate",
                "render", "poll", "quit"} \ {pc}

\* The program keeps running; the user need not type.
SpecKeys == InitKeys /\ [][NextKeys]_vars /\ WF_pc(ProgramStep)

(***************************************************************************)
(* show_job_summary_once: the one-shot mode.                                *)
(***************************************************************************)
SamplingFailedBoth(a1, a2) == a1 = <<>> /\ a2 = <<>>

\* Line 333: not samples1 or not samples2
SamplingFailed(a1, a2) == a1 = <<>> \/ a2 = <<>>

\* Lines 326-329
OnceResolve(answers) ==
    /\ pc = "once_resolve"
    /\ \E r \in answers :
          /\ resolved' = r
          /\ pidset' = r
          /\ calls' = Resolved(calls, r)
          /\ IF r = {}
             THEN rc' = Some(2) /\ pc' = "exit"
             ELSE rc' = rc /\ pc' = "once_sample1"
    /\ UNCHANGED <<s1, s2, interval, pattern, compiled, agg, state, cg_mem,
                   cycle, pushed, target, bfs, keybuf, screen, printed, procfs,
                   retry, sp, dj>>

\* Line 330
OnceSample1(samples) ==
    /\ pc = "once_sample1"
    /\ \E d \in samples : Keys(d) \subseteq pidset /\ s1' = d
    /\ calls' = [calls EXCEPT !.samples = @ + 1]
    /\ pc' = "once_sleep"
    /\ UNCHANGED <<s2, interval, pattern, compiled, agg, state, pidset, cg_mem,
                   cycle, pushed, target, bfs, resolved, rc, keybuf, screen,
                   printed, procfs, retry, sp, dj>>

\* Line 331
OnceSleep ==
    /\ pc = "once_sleep"
    /\ calls' = [calls EXCEPT !.sleeps = @ + 1]
    /\ pc' = "once_sample2"
    /\ UNCHANGED <<s1, s2, interval, pattern, compiled, agg, state, pidset,
                   cg_mem, cycle, pushed, target, bfs, resolved, rc, keybuf,
                   screen, printed, procfs, retry, sp, dj>>

\* Line 332
OnceSample2(samples) ==
    /\ pc = "once_sample2"
    /\ \E d \in samples : Keys(d) \subseteq pidset /\ s2' = d
    /\ calls' = [calls EXCEPT !.samples = @ + 1]
    /\ pc' = "once_finish"
    /\ UNCHANGED <<s1, interval, pattern, compiled, agg, state, pidset, cg_mem,
                   cycle, pushed, target, bfs, resolved, rc, keybuf, screen,
                   printed, procfs, retry, sp, dj>>

\* Lines 333-339: return 3, or aggregate, print the snapshot and return 0.
OnceFinish ==
    /\ pc = "once_finish"
    /\ IF SamplingFailed(s1, s2)
       THEN /\ rc' = Some(3)
            /\ UNCHANGED <<agg, calls, printed>>
       ELSE LET a == aggregate(s1, s2, interval, pattern, None)
            IN /\ agg' = Some(a)
               /\ printed' = Some(print_text_snapshot(a))
               /\ calls' = [calls EXCEPT !.aggregates = @ + 1,
                                         !.renders = @ + 1]
               /\ rc' = Some(0)
    /\ pc' = "exit"
    /\ UNCHANGED <<s1, s2, interval, pattern, compiled, state, pidset, cg_mem,
                   cycle, pushed, target, bfs, resolved, keybuf, screen, procfs,
                   retry, sp, dj>>

\* main, lines 814-816: --once with the given --interval and --pattern.
InitOnce(intervals, patterns) ==
    /\ pc = "once_resolve"
    /\ interval \in intervals
    /\ pattern \in patterns
    /\ compiled = None
    /\ s1 = <<>>
    /\ s2 = <<>>
    /\ agg = None
    /\ state = UIStateInit(DEFAULT_INTERVAL, None)
    /\ pidset = {}
    /\ cg_mem = None
    /\ cycle = 0
    /\ pushed = [cpu |-> <<>>, mem |-> <<>>]
    /\ NotResolving
    /\ NothingShown
    /\ NotSampling
    /\ resolved = {}
    /\ rc = None
    /\ keybuf = <<>>
    /\ calls = NoCalls

InitOnceAny ==
    InitOnce(Intervals, {Some(DEFAULT_R_PATTERN), Some(PatDangerous)})

NextOnce ==
    \/ OnceResolve(ResolveOutcomes)
    \/ OnceSample1(Readings(pidset, 0))
    \/ OnceSleep
    \/ OnceSample2(Readings(pidset, 1))
    \/ OnceFinish

SpecOnce == InitOnceAny /\ [][NextOnce]_vars

(***************************************************************************)
(* resolve_target_pids and descendants_of, step by step.  target holds the  *)
(* arguments (jobid, stepid, pid_root), the two SLURM_* environment         *)
(* variables, the node's process table ppid (pid -> parent pid, for the     *)
(* pids that have a /proc entry) and what scontrol does when it is run.     *)
(* The answer of scontrol stands for the query the call makes (the job id,  *)
(* or job id "." step id).                                                  *)
(***************************************************************************)
\* Python truthiness of an Optional[int] and of an Optional[str].
TruthyInt(o) == ~IsNone(o) /\ Val(o) # 0
TruthyStr(o) == ~IsNone(o) /\ Val(o) # <<>>

\* sub in txt
Contains(txt, sub) ==
    \E i \in 1..(Len(txt) - Len(sub) + 1) :
        SubSeq(txt, i, i + Len(sub) - 1) = sub

Job1 == <<"1">>
Job12 == <<"1", "2">>
Step0 == <<"0">>

\* The text of /proc/<pid>/cgroup: pid 1 runs in job 1, pid 2 in job 12, the
\* file of pid 3 cannot be read, every other pid is outside any job.
CgroupText(p) ==
    IF p = 1 THEN Some(<<"0", ":", ":", "/", "j", "o", "b", "_", "1", "/">>)
    ELSE IF p = 2
    THEN Some(<<"0", ":", ":", "/", "j", "o", "b", "_", "1", "2", "/">>)
    ELSE IF p = 3 THEN None
    ELSE Some(<<"0", ":", ":", "/", "u", "s", "e", "r">>)

\* os.path.exists(f'/proc/{p}') and list_all_pids
Exists(t, p) == p \in DOMAIN t.ppid
list_all_pids(t) == DOMAIN t.ppid

\* scontrol_listpids: nothing when scontrol is not installed or fails, else
\* the printed pids that have a /proc entry.
scontrol_listpids(t) ==
    IF t.scontrol.kind = "missing" THEN {}
    ELSE IF t.scontrol.kind = "failed" THEN {}
    ELSE {p \in t.scontrol.pids : Exists(t, p)}

\* Lines 407-417: the pids whose cgroup file can be read and contains
\* "job_<jobid>".
CgroupScan(t, jobid) ==
    {p \in list_all_pids(t) :
        /\ ~IsNone(CgroupText(p))
        /\ Contains(Val(CgroupText(p)), <<"j", "o", "b", "_">> \o jobid)}

\* Lines 403-417: the branch taken for a job id given as argument.
ResolveByJob(t, jobid) ==
    LET pids == scontrol_listpids(t)
    IN IF pids # {} THEN pids ELSE CgroupScan(t, jobid)

\* Lines 419-423: the branch taken when neither pid_root nor jobid is given.
ResolveByEnv(t) ==
    IF TruthyStr(t.env_job) THEN scontrol_listpids(t) ELSE {}

\* The elements of a set of pids in ascending order.
RECURSIVE Ascending(_)
Ascending(S) ==
    IF S = {} THEN <<>>
    ELSE LET m == CHOOSE x \in S : \A y \in S : x <= y
         IN <<m>> \o Ascending(S \ {m})

ChildrenKeyedByPid(t, x) ==
    IF x \in DOMAIN t.ppid THEN {t.ppid[x]} ELSE {}

\* children[x] of descendants_of
Children(t, x) == {p \in DOMAIN t.ppid : t.ppid[p] = x}

\* Lines 397-423, up to the loop of descendants_of.
resolve_target_pids ==
    /\ pc = "resolve_call"
    /\ IF TruthyInt(target.pid_root)
       THEN IF ~Exists(target, Val(target.pid_root))
            THEN /\ resolved' = {}
                 /\ pc' = "resolve_done"
                 /\ bfs' = bfs
            ELSE /\ bfs' = [q |-> <<Val(target.pid_root)>>, seen |-> {}]
                 /\ pc' = "descendants_of"
                 /\ resolved' = resolved
       ELSE /\ resolved' = IF TruthyStr(target.jobid)
                           THEN ResolveByJob(target, Val(target.jobid))
                           ELSE ResolveByEnv(target)
            /\ pc' = "resolve_done"
            /\ bfs' = bfs
    /\ calls' = [calls EXCEPT !.resolves = @ + 1]
    /\ UNCHANGED <<s1, s2, interval, pattern, compiled, agg, state, pidset,
                   cg_mem, cycle, pushed, target, rc, keybuf, screen, printed,
                   procfs, retry, sp, dj>>

\* Lines 447-452: one iteration of `while q`.
descendants_of_step ==
    /\ pc = "descendants_of"
    /\ bfs.q # <<>>
    /\ LET x == bfs.q[Len(bfs.q)]
           rest == SubSeq(bfs.q, 1, Len(bfs.q) - 1)
       IN bfs' = IF x \in bfs.seen
                 THEN [bfs EXCEPT !.q = rest]
                 ELSE [q |-> rest \o Ascending(Children(target, x)),
                       seen |-> bfs.seen \cup {x}]
    /\ UNCHANGED <<pc, s1, s2, interval, pattern, compiled, agg, state, pidset,
                   cg_mem, cycle, pushed, target, resolved, rc, keybuf, calls,
                   screen, printed, procfs, retry, sp, dj>>

\* Lines 453-454 and 401: the loop has ended, seen is returned.
descendants_of_return ==
    /\ pc = "descendants_of"
    /\ bfs.q = <<>>
    /\ resolved' = bfs.seen
    /\ pc' = "resolve_done"
    /\ UNCHANGED <<s1, s2, interval, pattern, compiled, agg, state, pidset,
                   cg_mem, cycle, pushed, target, bfs, rc, keybuf, calls,
                   screen, printed, procfs, retry, sp, dj>>

\* The command lines and the nodes resolve_target_pids is run on.
ProcIds == 1..MaxProc
JobArgs ==
    {<<None, None>>, <<Some(Job1), None>>, <<Some(Job12), None>>,
     <<Some(Job12), Some(Step0)>>}
SlurmEnvs ==
    {<<None, None>>, <<Some(Job12), None>>, <<Some(Job12), Some(Step0)>>}
ScontrolRuns ==
    {[kind |-> "missing", pids |-> {}], [kind |-> "failed", pids |-> {}],
     [kind |-> "ok", pids |-> {}], [kind |-> "ok", pids |-> {1}]}

\* The process tables: each pid is absent or has a parent in 0..MaxProc.
ProcessTables ==
    {[p \in {x \in ProcIds : f[x] >= 0} |-> f[p]] :
        f \in [ProcIds -> -1..MaxProc]}

\* The process tables in which every process is a child of pid 0.
FlatTables == {[p \in L |-> 0] : L \in SUBSET ProcIds}

TargetOf(j, e, r, m, sc) ==
    [jobid |-> j[1], stepid |-> j[2], pid_root |-> r,
     env_job |-> e[1], env_step |-> e[2], ppid |-> m, scontrol |-> sc]

\* --pid with a process id, on any process table, alone or beside --job or
\* the SLURM_* variables.
RootedTargets ==
    {TargetOf(c[1], c[2], r, m, c[3]) :
        r \in {Some(1), Some(MaxProc)},
        m \in ProcessTables,
        c \in {<<<<None, None>>, <<None, None>>,
                 [kind |-> "missing", pids |-> {}]>>,
               <<<<Some(Job12), Some(Step0)>>, <<None, None>>,
                 [kind |-> "ok", pids |-> {1}]>>,
               <<<<None, None>>, <<Some(Job12), None>>,
                 [kind |-> "ok", pids |-> {1}]>>}}

\* No --pid, or --pid 0.
UnrootedTargets ==
    {TargetOf(j, e, r, m, sc) :
        j \in JobArgs, e \in SlurmEnvs, r \in {None, Some(0)},
        m \in FlatTables, sc \in ScontrolRuns}

Targets == RootedTargets \cup UnrootedTargets

InitResolve ==
    /\ pc = "resolve_call"
    /\ target \in Targets
    /\ bfs = [q |-> <<>>, seen |-> {}]
    /\ NothingShown
    /\ NotSampling
    /\ resolved = {}
    /\ s1 = <<>>
    /\ s2 = <<>>
    /\ interval = DEFAULT_INTERVAL
    /\ pattern = None
    /\ compiled = None
    /\ agg = None
    /\ state = UIStateInit(DEFAULT_INTERVAL, None)
    /\ pidset = {}
    /\ cg_mem = None
    /\ cycle = 0
    /\ pushed = [cpu |-> <<>>, mem |-> <<>>]
    /\ rc = None
    /\ keybuf = <<>>
    /\ calls = NoCalls

NextResolve ==
    \/ resolve_target_pids
    \/ descendants_of_step
    \/ descendants_of_return

\* A call that has begun keeps running.
SpecResolve == InitResolve /\ [][NextResolve]_vars /\ WF_vars(NextResolve)

(***************************************************************************)
(* The smoothed fork rate, checked under SpecEma.                           *)
(***************************************************************************)
\* |a - b|
RatDist(a, b) ==
    LET diff == RatAdd(a, [n |-> -b.n, d |-> b.d])
    IN [n |-> Abs(diff.n), d |-> diff.d]

AggregateStep == pc = "aggregate" /\ pc' = "render"

\* C11: the aggregation step of the first cycle sets the smoothed fork rate
\* to that cycle's instantaneous rate; the aggregation step of every later
\* cycle sets it to 3/10 of that cycle's instantaneous rate plus 7/10 of the
\* previous smoothed value; each cycle has exactly one such step and no other
\* step changes the smoothed rate.
C11_EmaSeededThenBlended ==
    [][/\ AggregateStep =>
            LET inst == Val(agg').fork_rate_hz
                prev == state.fork_rate_ema
            IN /\ IsNone(prev) <=> cycle = 1
               /\ calls'.aggregates = cycle
               /\ state'.fork_rate_ema =
                     Some(IF cycle = 1
                          THEN inst
                          ELSE RatAdd(RatMul([n |-> 3, d |-> 10], inst),
                                      RatMul([n |-> 7, d |-> 10], Val(prev))))
       /\ ~AggregateStep => state'.fork_rate_ema = state.fork_rate_ema
      ]_vars

\* No fork in the first cycle, one fork per second in the second: 0.3.
C11_Witness ==
    /\ pc = "render"
    /\ cycle = 2
    /\ Val(agg).fork_rate_hz = RatOfInt(1)
    /\ state.fork_rate_ema = Some([n |-> 3, d |-> 10])

\* C12: in every cycle after the first, with r that cycle's instantaneous
\* rate, the distance of the smoothed rate to r after the cycle is 7/10 of
\* the distance before it, and so not larger; over cycles with the same r the
\* smoothed rate approaches r whatever it was before.
C12_EmaDistanceShrinks ==
    [][(AggregateStep /\ ~IsNone(state.fork_rate_ema)) =>
          LET r == Val(agg').fork_rate_hz
              before == RatDist(Val(state.fork_rate_ema), r)
              after == RatDist(Val(state'.fork_rate_ema), r)
          IN /\ after = RatMul([n |-> 7, d |-> 10], before)
             /\ RatLeq(after, before)
      ]_vars

\* Seeded with 0, then two cycles of one fork per second: 0.3, then 0.51,
\* at distances 1, 0.7 and 0.49 from the reading.
C12_Witness ==
    /\ pc = "render"
    /\ cycle = 3
    /\ Val(agg).fork_rate_hz = RatOfInt(1)
    /\ state.fork_rate_ema = Some([n |-> 51, d |-> 100])

(***************************************************************************)
(* Target resolution, checked under SpecResolve.                            *)
(***************************************************************************)
ResolveDone == pc = "resolve_done"

\* The processes reachable from the pids of S in at most n parent-to-child
\* links of the process table.
RECURSIVE Reach(_, _, _)
Reach(t, S, n) ==
    IF n = 0 THEN S
    ELSE Reach(t, S \cup {p \in DOMAIN t.ppid : t.ppid[p] \in S}, n - 1)

\* What the claim promises for a root pid: nothing when the root has no
\* /proc entry, else the root and all its descendants.
RootClosure(t, root) ==
    IF root \in DOMAIN t.ppid THEN Reach(t, {root}, MaxProc) ELSE {}

Digits == {"0", "1", "2", "3", "4", "5", "6", "7", "8", "9"}

\* The cgroup text names the job: it has "job_<jobid>" with no further digit
\* after it.
NamesJob(txt, jobid) ==
    LET frag == <<"j", "o", "b", "_">> \o jobid
    IN \E i \in 1..(Len(txt) - Len(frag) + 1) :
          /\ SubSeq(txt, i, i + Len(frag) - 1) = frag
          /\ (i + Len(frag) <= Len(txt) => txt[i + Len(frag)] \notin Digits)

\* The pids of the node whose readable cgroup file names the job.
MembersOfJob(t, jobid) ==
    {p \in DOMAIN t.ppid :
        ~IsNone(CgroupText(p)) /\ NamesJob(Val(CgroupText(p)), jobid)}

\* The pids the scheduler query yields: none when scontrol is missing or
\* fails, else the listed pids that are alive.
QueryYield(t) ==
    IF t.scontrol.kind = "ok"
    THEN {p \in t.scontrol.pids : p \in DOMAIN t.ppid}
    ELSE {}

C15_EnvJobLikeExplicitJob ==
    (ResolveDone /\ IsNone(target.pid_root) /\ IsNone(target.jobid)) =>
        resolved = IF ~IsNone(target.env_job)
                   THEN ResolveByJob(target, Val(target.env_job))
                   ELSE {}

(***************************************************************************)
(* Membership in the refresh loop, checked under SpecMembers.               *)
(***************************************************************************)
InCycle == pc \in {"sample0", "sleep", "sample1", "aggregate", "render", "poll"}

\* C16: every cycle resolves once more (one resolution before the loop and
\* one per cycle); the set a cycle samples is the set just resolved when
\* that is not empty and otherwise the most recent non-empty resolution;
\* once a resolution was non-empty the sampled set is not empty; and a
\* resolution, empty or not, is followed by the cycle's first sample: the
\* loop is left at the input poll only.
C16_SampledSetFallsBack ==
    /\ [](InCycle =>
            /\ calls.resolves = cycle + 1
            /\ pidset = IF resolved # {} THEN resolved
                                         ELSE calls.last_nonempty
            /\ (calls.last_nonempty # {} => pidset # {})
            /\ (pc # "sample0" => Keys(s1) = pidset)
            /\ (pc \in {"aggregate", "render", "poll"} => Keys(s2) = pidset))
    /\ [][/\ (pc = "resolve" /\ pc' # "resolve") => pc' = "sample0"
          /\ pc' = "quit" => pc = "poll"]_vars

\* The third cycle resolves nothing after the second resolved both
\* processes: both are sampled again.
C16_Witness ==
    /\ pc = "render"
    /\ cycle = 3
    /\ resolved = {}
    /\ calls.last_nonempty = Pids
    /\ Keys(s1) = Pids
    /\ Keys(s2) = Pids
    /\ Val(agg).pid_count = MaxPid

(***************************************************************************)
(* The one-shot mode, checked under SpecOnce.                               *)
(***************************************************************************)
Exited == pc = "exit"

\* C17 (as claimed): the return code is 2 exactly when the resolution is
\* empty, and then nothing was sampled; it is 3 only when both snapshots are
\* empty; it is 0 in every other case, after one snapshot was printed.
C17_ExitCodeThreeOnlyIfBothEmpty ==
    Exited =>
        /\ (rc = Some(2)) <=> (resolved = {})
        /\ (rc = Some(2)) => (calls.samples = 0)
        /\ (rc = Some(3)) <=> (resolved # {} /\ s1 = <<>> /\ s2 = <<>>)
        /\ (rc = Some(0)) <=> (resolved # {} /\ ~(s1 = <<>> /\ s2 = <<>>))
        /\ (rc = Some(0)) => (calls.renders = 1)

\* C17 (amended): the return code is 2 exactly when the resolution is empty,
\* and then nothing was sampled and nothing slept; it is 3 exactly when the
\* resolution is not empty and at least one of the two snapshots is empty,
\* and then nothing is printed; it is 0 exactly when both snapshots hold a
\* process, after the one snapshot aggregate returns for them was printed.
C17_ExitCodes ==
    Exited =>
        /\ rc \in {Some(0), Some(2), Some(3)}
        /\ (rc = Some(2)) <=> (resolved = {})
        /\ (rc = Some(2)) => (calls.samples = 0 /\ calls.sleeps = 0)
        /\ (rc = Some(3)) <=> (resolved # {} /\ (s1 = <<>> \/ s2 = <<>>))
        /\ (rc = Some(3)) => (calls.renders = 0 /\ calls.samples = 2)
        /\ (rc = Some(0)) <=> (resolved # {} /\ s1 # <<>> /\ s2 # <<>>)
        /\ (rc = Some(0)) =>
              /\ calls.renders = 1
              /\ calls.samples = 2
              /\ calls.sleeps = 1
              /\ ~IsNone(agg)
              /\ Val(agg).pid_count = Len(s2)

\* The only resolved process was sampled first and was gone after the sleep:
\* return code 3.
C17_Witness ==
    /\ Exited
    /\ resolved = {1}
    /\ s1 # <<>>
    /\ s2 = <<>>
    /\ rc = Some(3)

(***************************************************************************)
(* Keys, checked under SpecKeys.                                            *)
(***************************************************************************)
\* The step in which getch reads the key k.
Reads(k) == pc = "poll" /\ pc' # "poll" /\ keybuf # <<>> /\ Head(keybuf) = k

\* C18 (as claimed): after getch has read '1' or '2' the refresh interval is
\* within [MIN_INTERVAL, MAX_INTERVAL], whatever it was before, and so is
\* the interval every later cycle sleeps.
C18_SpeedKeysKeepIntervalInBounds ==
    [][(Reads("1") \/ Reads("2")) =>
          /\ MIN_INTERVAL <= state'.interval
          /\ state'.interval <= MAX_INTERVAL]_vars

\* What the keys can change in UIState.
Toggles(st) ==
    <<st.pattern, st.compiled_pattern, st.show_all, st.sort_by_rss,
      st.use_cgroup_mem, st.interval>>

\* The order of the steps of draw.
StepOrder ==
    {<<"start", "resolve">>, <<"resolve", "sample0">>, <<"sample0", "sleep">>,
     <<"sleep", "sample1">>, <<"sample1", "aggregate">>,
     <<"aggregate", "render">>, <<"render", "poll">>, <<"poll", "resolve">>,
     <<"poll", "quit">>}

\* How many cycles have gone past the step that leaves position p.
Passed(p) ==
    LET order == <<"sample0", "sleep", "sample1", "aggregate", "render", "poll">>
        at(x) == CHOOSE i \in 1..6 : order[i] = x
    IN IF pc \in {"start", "resolve", "quit"} THEN cycle
       ELSE IF at(pc) > at(p) THEN cycle ELSE cycle - 1

\* C19: the steps of a cycle follow each other in the order resolve, sample
\* T0, sleep, sample T1, aggregate, render, input poll; at every moment each
\* step has run once in every finished cycle and at most once in the current
\* one (one sleep and one poll per cycle); the toggles of UIState change at
\* the input poll only, so the interval slept and the pattern and memory
\* source of the snapshot on screen are those UIState held when the cycle
\* began, and a key typed during a cycle changes nothing before the poll.
C19_SequentialCycle ==
    /\ [][/\ pc' # pc => <<pc, pc'>> \in StepOrder
          /\ Toggles(state') # Toggles(state) => pc = "poll"
          /\ keybuf' # keybuf =>
                \/ pc = "poll"
                \/ UNCHANGED <<pc, s1, s2, interval, pattern, compiled, agg,
                               state, pidset, cg_mem, cycle, pushed, calls,
                               screen, printed, procfs, retry, sp, dj>>
         ]_vars
    /\ [](/\ calls.resolves = 1 + cycle \/ pc = "start"
          /\ calls.samples = Passed("sample0") + Passed("sample1")
          /\ calls.sleeps = Passed("sleep")
          /\ calls.aggregates = Passed("aggregate")
          /\ calls.renders = Passed("render")
          /\ calls.polls = Passed("poll")
          /\ (InCycle => interval = Max(DRAW_MIN_INTERVAL, state.interval))
          /\ (pc \in {"render", "poll"} =>
                /\ pattern = IF state.show_all THEN None ELSE state.pattern
                /\ IsNone(cg_mem) <=> ~state.use_cgroup_mem))

\* 'a' was read at the first poll (typed while the first cycle slept or
\* later): the second cycle's snapshot is unfiltered, and 'c' typed during
\* the second cycle waits in the queue while its snapshot, still with the
\* cgroup reading, is on screen.
C19_Witness ==
    /\ pc = "poll"
    /\ cycle = 2
    /\ state.show_all
    /\ pattern = None
    /\ keybuf = <<"c">>
    /\ state.use_cgroup_mem
    /\ ~IsNone(cg_mem)
    /\ calls.sleeps = 2
    /\ calls.polls = 1

\* 'q' waits in the input queue.
QuitTyped == "q" \in {keybuf[i] : i \in DOMAIN keybuf}

\* C20: the loop is left only by the input poll that reads 'q', after that
\* cycle's two samples, aggregation and render are done; reading 'q' always
\* leaves the loop; once left, no step follows (no resolve, sample, history
\* push or render); and a typed 'q' leads to Quit.
C20_QuitOnlyAtPoll ==
    /\ [][/\ pc' = "quit" =>
                /\ Reads("q")
                /\ calls.samples = 2 * cycle
                /\ calls.aggregates = cycle
                /\ calls.renders = cycle
                /\ Len(pushed.cpu) = cycle
          /\ Reads("q") => pc' = "quit"
          /\ pc # "quit"
         ]_vars
    /\ (QuitTyped ~> pc = "quit")

\* 'q' was typed before the second sample of the first cycle; that cycle was
\* completed and shown, and the loop has ended.
C20_Witness ==
    /\ pc = "quit"
    /\ cycle = 1
    /\ calls.samples = 2
    /\ calls.renders = 1
    /\ Len(state.cpu_hist) = 1
    /\ ~IsNone(agg)

(***************************************************************************)
(* The refresh loop over a job whose cgroup may or may not be found and     *)
(* whose accounting file may be unreadable, hold 0 or hold a value that no  *)
(* sum of resident sizes equals; the membership may resolve empty, the      *)
(* processes are all readable, and any key may be pressed.                  *)
(***************************************************************************)
MemReads == {None, Some(0), Some(CgBytes)}
Memberships == {{}, Pids}

InitCgroup == InitDraw({DEFAULT_INTERVAL}, {Some(DEFAULT_R_PATTERN)})

NextCgroup ==
    \/ DrawStart(Memberships, DetectOutcomes)
    \/ Resolve(Memberships, MaxCgCycles)
    \/ Sample0({LoopDict(pidset, 0)})
    \/ Sleep
    \/ Sample1({LoopDict(pidset, 1)})
    \/ Aggregate(MemReads)
    \/ Render
    \/ Poll(KeysOfUI)

SpecCgroup == InitCgroup /\ [][NextCgroup]_vars

\* The cgroup reading is available to the cycle just aggregated.
CgroupAvailable ==
    /\ state.use_cgroup_mem
    /\ ~IsNone(state.cgroup_kind_path)
    /\ ~IsNone(calls.cg_file)

\* C21: once a cycle is rendered and before its key is handled, the memory
\* figure on screen and the last value pushed to the memory history are the
\* cgroup file's value, flagged [cgroup], when cgroup reading is enabled, the
\* job's cgroup is known and the file yields a value; otherwise they are the
\* cycle's summed RSS, flagged [sum RSS].
C21_MemoryFigureAndSource ==
    (pc = "poll") =>
        LET a == Val(agg)
            scr == Val(screen)
            last == pushed.mem[Len(pushed.mem)]
        IN IF CgroupAvailable
           THEN /\ scr.mem_used = Val(calls.cg_file)
                /\ last = Val(calls.cg_file)
                /\ state.mem_hist[Len(state.mem_hist)] = Val(calls.cg_file)
                /\ scr.mem_source = "[cgroup]"
           ELSE /\ scr.mem_used = a.total_rss_bytes
                /\ last = a.total_rss_bytes
                /\ state.mem_hist[Len(state.mem_hist)] = a.total_rss_bytes
                /\ scr.mem_source = "[sum RSS]"

\* The cgroup file holds 3 bytes while the two processes' resident sizes sum
\* to 5: the screen shows 3 from the cgroup.
C21_Witness ==
    /\ pc = "poll"
    /\ CgroupAvailable
    /\ Val(agg).total_rss_bytes = 5
    /\ Val(screen).mem_used = CgBytes
    /\ Val(screen).mem_source = "[cgroup]"

(***************************************************************************)
(* The one-shot mode followed by the interactive mode on the same command   *)
(* line and the same node: the interactive run resolves the pid set the     *)
(* one-shot run resolved and its first cycle reads the two samples the      *)
(* one-shot run read.                                                       *)
(***************************************************************************)
\* main, lines 818-820: the program is started again without --once, with
\* the same --interval and --pattern.  resolved, s1 and s2 keep what the node
\* answered to the one-shot run: the interactive run is given the same
\* answers; printed keeps what the one-shot run wrote.
RunInteractive ==
    /\ pc = "exit"
    /\ pc' = "start"
    /\ state' = UIStateInit(interval, pattern)
    /\ agg' = None
    /\ pidset' = {}
    /\ calls' = NoCalls
    /\ UNCHANGED <<s1, s2, interval, pattern, compiled, cg_mem, cycle, pushed,
                   target, bfs, resolved, rc, keybuf, screen, printed, procfs,
                   retry, sp, dj>>

\* --interval values of at least 0.1 s, which draw takes as they are.
BothIntervals == {i \in Intervals : i >= DRAW_MIN_INTERVAL}

InitBoth == InitOnce(BothIntervals, {Some(DEFAULT_R_PATTERN)})

NextBoth ==
    \/ OnceResolve(ResolveOutcomes)
    \/ OnceSample1(Readings(pidset, 0))
    \/ OnceSleep
    \/ OnceSample2(Readings(pidset, 1))
    \/ OnceFinish
    \/ RunInteractive
    \/ DrawStart({resolved}, DetectOutcomes)
    \/ Resolve({resolved}, 1)
    \/ Sample0({s1})
    \/ Sleep
    \/ Sample1({s2})
    \/ Aggregate(CgReads)
    \/ Render

SpecBoth == InitBoth /\ [][NextBoth]_vars

\* C22: when the one-shot run has printed a snapshot and the interactive run
\* has drawn its first cycle from the same pid set, samples, interval and
\* pattern, the two show the same counts, totals and rows, the same memory
\* figure and the same memory source.
C22_OnceEqualsFirstCycle ==
    (pc = "poll" /\ ~IsNone(printed)) =>
        LET out == Val(printed)
            scr == Val(screen)
        IN /\ out.pid_count = scr.pid_count
           /\ out.new_pids = scr.new_pids
           /\ out.died_pids = scr.died_pids
           /\ out.total_cpu_cores = scr.total_cpu_cores
           /\ out.rows = scr.rows
           /\ out.mem_used = scr.mem_used
           /\ out.cgroup = (scr.mem_source = "[cgroup]")

(***************************************************************************)
(* retry_on_failure: the wrapper the decorator puts around a function,      *)
(* step by step.  retry holds max_retries (budget), what the wrapped        *)
(* function does at its 1st, 2nd, ... invocation (script), who called, the  *)
(* loop variable attempt, last_exception, the number of invocations and of  *)
(* time.sleep(delay) calls made, and what the wrapper returned or raised.   *)
(* A result is [kind, value]: kind "return" with the value returned, or     *)
(* kind "raise" with value <<exception type, invocation that raised it>>.   *)
(***************************************************************************)
Returned(v) == [kind |-> "return", value |-> v]
Raised(type, k) == [kind |-> "raise", value |-> <<type, k>>]

\* exceptions=(IOError, OSError): IOError is OSError in Python 3.
Recoverable(r) == r.kind = "raise" /\ r.value[1] = "OSError"

\* wrapper(*args, **kwargs) is entered.
WrapperCall(max_retries, script, caller) ==
    [budget |-> max_retries, script |-> script, caller |-> caller,
     attempt |-> 0, invoked |-> 0, waits |-> 0, last_exception |-> None,
     outcome |-> None]

SleepsBeforeNextAlways(attempt, max_retries) == TRUE

\* Line 114: if attempt < max_retries - 1
SleepsBeforeNext(attempt, max_retries) == attempt < max_retries - 1

\* Lines 109-118: one pass of `for attempt in range(max_retries)`: the
\* function is invoked; its value is returned, an exception outside
\* `exceptions` propagates, and one inside is kept in last_exception.
wrapper_attempt ==
    /\ pc = "wrapper_for"
    /\ retry.attempt < retry.budget
    /\ LET r == retry.script[retry.invoked + 1]
           called == [retry EXCEPT !.invoked = @ + 1]
       IN IF Recoverable(r)
          THEN IF SleepsBeforeNext(retry.attempt, retry.budget)
               THEN /\ retry' = [called EXCEPT !.last_exception = Some(r)]
                    /\ pc' = "wrapper_sleep"
               ELSE /\ retry' = [called EXCEPT !.last_exception = Some(r),
                                               !.attempt = @ + 1]
                    /\ pc' = "wrapper_for"
          ELSE /\ retry' = [called EXCEPT !.outcome = Some(r)]
               /\ pc' = "wrapper_done"
    /\ UNCHANGED <<s1, s2, interval, pattern, compiled, agg, state, pidset,
                   cg_mem, cycle, pushed, target, bfs, resolved, rc, keybuf,
                   calls, screen, printed, procfs, sp, dj>>

\* Line 116: time.sleep(delay), then the next pass.
wrapper_sleep ==
    /\ pc = "wrapper_sleep"
    /\ retry' = [retry EXCEPT !.waits = @ + 1, !.attempt = @ + 1]
    /\ pc' = "wrapper_for"
    /\ UNCHANGED <<s1, s2, interval, pattern, compiled, agg, state, pidset,
                   cg_mem, cycle, pushed, target, bfs, resolved, rc, keybuf,
                   calls, screen, printed, procfs, sp, dj>>

\* Lines 119-122: the for loop is over.
wrapper_exhausted ==
    /\ pc = "wrapper_for"
    /\ retry.attempt >= retry.budget
    /\ retry' = [retry EXCEPT !.outcome =
                    IF ~IsNone(retry.last_exception)
                    THEN retry.last_exception
                    ELSE Some(Returned(None))]
    /\ pc' = "wrapper_done"
    /\ UNCHANGED <<s1, s2, interval, pattern, compiled, agg, state, pidset,
                   cg_mem, cycle, pushed, target, bfs, resolved, rc, keybuf,
                   calls, screen, printed, procfs, sp, dj>>

(***************************************************************************)
(* sample_procs, step by step.  procfs[p] says what each read of            *)
(* /proc/<p>/... does: "ok", "gone" (FileNotFoundError), "denied"           *)
(* (PermissionError), "ioerror" (another OSError, a transient read error)   *)
(* or "malformed" (the text read does not parse).  rss_stat is a sequence:  *)
(* what the 1st, 2nd, ... invocation of read_status_rss_bytes meets when it *)
(* opens /proc/<p>/stat.  read_vms_bytes, which has the shape of            *)
(* read_status_rss_bytes without the fallback, fills vms_bytes, a field     *)
(* the model does not keep.                                                 *)
(***************************************************************************)
\* @retry_on_failure(max_retries=2, ...), line 211
READ_RETRIES == 2

\* parse_stat, lines 163-191: the tuple read, or None.
parse_stat(fs, p) ==
    CASE fs[p].stat = "ok" ->
            Some([pid |-> p, comm |-> KindOf(p).comm, cpu_ticks |-> MaxTicks])
      [] fs[p].stat = "gone" -> None
      [] fs[p].stat = "malformed" -> None
      [] OTHER -> None

\* The body of read_status_rss_bytes, lines 214-231, at its k-th invocation:
\* every exception is caught inside, the fallback is VmRSS of
\* /proc/<pid>/status, and 0 when that fails too.
read_status_rss_bytes(fs, p, k) ==
    IF fs[p].rss_stat[k] = "ok" THEN Returned(KindOf(p).rss_bytes)
    ELSE IF fs[p].status = "ok" THEN Returned(KindOf(p).rss_bytes)
    ELSE Returned(0)

\* read_cmdline, lines 193-209
read_cmdline(fs, p) ==
    IF fs[p].cmdline = "ok" THEN KindOf(p).cmdline ELSE <<>>

\* Lines 460-461
sample_procs_call ==
    /\ pc = "sample_call"
    /\ s1' = <<>>
    /\ sp' = [sp EXCEPT !.todo = Ascending(pidset)]
    /\ pc' = "sample_for"
    /\ UNCHANGED <<s2, interval, pattern, compiled, agg, state, pidset, cg_mem,
                   cycle, pushed, target, bfs, resolved, rc, keybuf, calls,
                   screen, printed, procfs, retry, dj>>

\* Line 461: the next pid of the list, or line 475 when the list is over.
sample_procs_for ==
    /\ pc = "sample_for"
    /\ IF sp.todo = <<>>
       THEN /\ pc' = "sample_done"
            /\ sp' = sp
       ELSE /\ pc' = "sample_stat"
            /\ sp' = [sp EXCEPT !.pid = Head(sp.todo), !.todo = Tail(sp.todo),
                                !.stat = None]
    /\ UNCHANGED <<s1, s2, interval, pattern, compiled, agg, state, pidset,
                   cg_mem, cycle, pushed, target, bfs, resolved, rc, keybuf,
                   calls, screen, printed, procfs, retry, dj>>

sample_procs_stat_break ==
    /\ pc = "sample_stat"
    /\ LET stat == parse_stat(procfs, sp.pid)
       IN IF IsNone(stat)
          THEN /\ pc' = "sample_done"
               /\ UNCHANGED <<sp, retry, dj>>
          ELSE /\ sp' = [sp EXCEPT !.stat = stat]
               /\ retry' = WrapperCall(READ_RETRIES,
                              [k \in 1..READ_RETRIES |->
                                  read_status_rss_bytes(procfs, sp.pid, k)],
                              "sample_procs")
               /\ pc' = "wrapper_for"
    /\ UNCHANGED <<s1, s2, interval, pattern, compiled, agg, state, pidset,
                   cg_mem, cycle, pushed, target, bfs, resolved, rc, keybuf,
                   calls, screen, printed, procfs, dj>>

\* Lines 463-467: parse_stat; `continue` when it gave nothing, else the call
\* of the wrapped read_status_rss_bytes.
sample_procs_stat ==
    /\ pc = "sample_stat"
    /\ LET stat == parse_stat(procfs, sp.pid)
       IN IF IsNone(stat)
          THEN /\ pc' = "sample_for"
               /\ UNCHANGED <<sp, retry, dj>>
          ELSE /\ sp' = [sp EXCEPT !.stat = stat]
               /\ retry' = WrapperCall(READ_RETRIES,
                              [k \in 1..READ_RETRIES |->
                                  read_status_rss_bytes(procfs, sp.pid, k)],
                              "sample_procs")
               /\ pc' = "wrapper_for"
    /\ UNCHANGED <<s1, s2, interval, pattern, compiled, agg, state, pidset,
                   cg_mem, cycle, pushed, target, bfs, resolved, rc, keybuf,
                   calls, screen, printed, procfs, dj>>

\* Lines 467-474: read_status_rss_bytes has returned or raised; on a value,
\* read_cmdline and samples[pid] = ProcSample(...); on an exception,
\* `except Exception: continue`.
sample_procs_store ==
    /\ pc = "wrapper_done"
    /\ retry.caller = "sample_procs"
    /\ LET r == Val(retry.outcome)
           stat == Val(sp.stat)
       IN IF r.kind = "return"
          THEN s1' = Append(s1, [pid |-> stat.pid, comm |-> stat.comm,
                                 cpu_ticks |-> stat.cpu_ticks,
                                 rss_bytes |-> r.value,
                                 cmdline |-> read_cmdline(procfs, sp.pid)])
          ELSE s1' = s1
    /\ pc' = "sample_for"
    /\ UNCHANGED <<s2, interval, pattern, compiled, agg, state, pidset, cg_mem,
                   cycle, pushed, target, bfs, resolved, rc, keybuf, calls,
                   screen, printed, procfs, retry, sp, dj>>

\* What can happen to the reads of one process.
Fate(stat, rss_stat, status, cmdline) ==
    [stat |-> stat, rss_stat |-> rss_stat, status |-> status,
     cmdline |-> cmdline]

Fates ==
    {Fate("ok", [k \in 1..READ_RETRIES |-> "ok"], "ok", "ok"),
     Fate("gone", [k \in 1..READ_RETRIES |-> "gone"], "gone", "gone"),
     Fate("malformed", [k \in 1..READ_RETRIES |-> "ok"], "ok", "ok"),
     Fate("ioerror", [k \in 1..READ_RETRIES |-> "ok"], "ok", "ok"),
     Fate("ok", [k \in 1..READ_RETRIES |-> IF k = 1 THEN "ioerror" ELSE "ok"],
          "ok", "ok"),
     Fate("ok", [k \in 1..READ_RETRIES |-> IF k = 1 THEN "ioerror" ELSE "ok"],
          "ioerror", "ok"),
     Fate("ok", [k \in 1..READ_RETRIES |-> "ok"], "ok", "denied"),
     Fate("ok", [k \in 1..READ_RETRIES |-> "gone"], "gone", "gone")}

\* What a wrapped function can do at one invocation.
ScriptKinds == {"value", "OSError", "ValueError"}
ScriptOf(f) ==
    [k \in DOMAIN f |-> IF f[k] = "value" THEN Returned(k) ELSE Raised(f[k], k)]
Scripts(n) == {ScriptOf(f) : f \in [1..n -> ScriptKinds]}

\* Either a wrapped function is called on its own, with a budget of 0 to
\* MaxBudget, or sample_procs is called on a set of pids.
InitReads ==
    /\ \/ /\ pc = "wrapper_for"
          /\ \E n \in 0..MaxBudget :
                \E s \in Scripts(n) : retry = WrapperCall(n, s, "caller")
          /\ pidset = {}
          /\ procfs = NoProcfs
       \/ /\ pc = "sample_call"
          /\ retry = NoRetry
          /\ pidset \in SUBSET Pids
          /\ procfs \in [pidset -> Fates]
    /\ sp = NoSampleProcs
    /\ dj = NoDetect
    /\ s1 = <<>>
    /\ s2 = <<>>
    /\ interval = DEFAULT_INTERVAL
    /\ pattern = None
    /\ compiled = None
    /\ agg = None
    /\ state = UIStateInit(DEFAULT_INTERVAL, None)
    /\ cg_mem = None
    /\ cycle = 0
    /\ pushed = [cpu |-> <<>>, mem |-> <<>>]
    /\ NotResolving
    /\ NothingShown
    /\ resolved = {}
    /\ rc = None
    /\ keybuf = <<>>
    /\ calls = NoCalls

NextReads ==
    \/ wrapper_attempt
    \/ wrapper_sleep
    \/ wrapper_exhausted
    \/ sample_procs_call
    \/ sample_procs_for
    \/ sample_procs_stat
    \/ sample_procs_store

SpecReads == InitReads /\ [][NextReads]_vars /\ WF_vars(NextReads)

\* The sample of process p when every read of it succeeds.
HealthySample(p) == ProcSample(p, KindOf(p), MaxTicks)
Healthy(f) ==
    /\ f.stat = "ok"
    /\ \A k \in DOMAIN f.rss_stat : f.rss_stat[k] = "ok"
    /\ f.cmdline = "ok"

SampleDone == pc = "sample_done"

\* C23: sample_procs always returns; the keys of its result are the pids of
\* the input whose stat was read and parsed (so a subset of the input, and
\* a process that has gone is left out); an entry carries its own process's
\* identity and counters, with 0 or "" for a later read that failed; and a
\* pid whose reads all succeed has its full sample whatever happened to the
\* other pids.
C23_SampleProcsNeverRaises ==
    /\ [](SampleDone =>
            /\ Keys(s1) = {p \in pidset : procfs[p].stat = "ok"}
            /\ Len(s1) = Cardinality(Keys(s1))
            /\ \A k \in DOMAIN s1 :
                  LET e == s1[k]
                      h == HealthySample(e.pid)
                  IN /\ e.comm = h.comm
                     /\ e.cpu_ticks = h.cpu_ticks
                     /\ e.rss_bytes \in {h.rss_bytes, 0}
                     /\ e.cmdline \in {h.cmdline, <<>>}
                     /\ Healthy(procfs[e.pid]) => e = h)
    /\ [](pc \in {"sample_for", "sample_stat"} => Keys(s1) \subseteq pidset)
    /\ (pc = "sample_call" ~> SampleDone)

\* Process 1 has gone and process 2 is healthy: the result is the full
\* sample of process 2 alone.
C23_Witness ==
    /\ SampleDone
    /\ pidset = Pids
    /\ procfs[1].stat = "gone"
    /\ Healthy(procfs[2])
    /\ s1 = <<HealthySample(2)>>

WrapperDone == pc = "wrapper_done"

\* C27: the wrapper invokes the function at most budget times and sleeps
\* only after a failed invocation that another follows (never more than
\* budget - 1 times); when it ends, every invocation before the last one
\* raised a recoverable error, and the outcome is the last invocation's: its
\* value, its non-recoverable error, or, only after budget invocations, its
\* recoverable error (None when the budget is 0); and every call ends.
C27_RetryIsBounded ==
    /\ [](/\ retry.invoked <= retry.budget
          /\ retry.waits <= retry.invoked
          /\ retry.waits <= Max(0, retry.budget - 1)
          /\ WrapperDone =>
                LET r == Val(retry.outcome)
                    k == retry.invoked
                IN /\ retry.waits = Max(0, k - 1)
                   /\ \A j \in 1..(k - 1) : Recoverable(retry.script[j])
                   /\ IF k = 0
                      THEN retry.budget = 0 /\ r = Returned(None)
                      ELSE r = retry.script[k]
                   /\ Recoverable(r) => k = retry.budget)
    /\ (pc = "wrapper_for" ~> WrapperDone)

\* A budget of 3 and a function that raises a recoverable error each time:
\* three invocations, two sleeps, and the third error propagates.
C27_Witness ==
    /\ WrapperDone
    /\ retry.caller = "caller"
    /\ retry.budget = 3
    /\ retry.invoked = 3
    /\ retry.waits = 2
    /\ retry.outcome = Some(Raised("OSError", 3))

\* C28: when the read of /proc/<pid>/stat made by read_status_rss_bytes
\* meets a transient I/O error, the wrapped read is invoked again after one
\* delay before sample_procs goes on with the pid.
C28_TransientReadIsRetried ==
    (/\ WrapperDone
     /\ retry.caller = "sample_procs"
     /\ procfs[sp.pid].rss_stat[1] = "ioerror")
        => /\ retry.invoked >= 2
           /\ retry.waits >= 1

\* C24: as long as no resolution has yielded a pid, the refresh loop takes
\* no sample, makes no aggregation and draws no cycle (it tells the user
\* that there is no target instead).
C24_NoTargetIsSurfaced ==
    calls.last_nonempty = {} =>
        /\ calls.samples = 0
        /\ calls.aggregates = 0
        /\ IsNone(screen)

\* C25: reading 'r' makes the R default the active pattern exactly when it
\* was not the active pattern before.
C25_RKeyToggles ==
    [][Reads("r") =>
          (state'.pattern = Some(DEFAULT_R_PATTERN))
              = (state.pattern # Some(DEFAULT_R_PATTERN))]_vars

(***************************************************************************)
(* detect_job_cgroup, step by step.  dj holds the argument job_pids, the    *)
(* position i of the for loop, the counter (a dict in insertion order, as a *)
(* sequence of [key, n]) and the value returned.  procfs[p] is the dict     *)
(* cgroup_paths_for_pid(p) returns, as far as it is read: the path under    *)
(* 'unified' and the path under 'memory', each an Optional (empty when      *)
(* /proc/<p>/cgroup cannot be read or has no such line).                    *)
(***************************************************************************)
MAX_SAMPLE_PIDS == 200

cgroup_paths_for_pid(fs, p) == fs[p]

\* Lines 298-301: the key a pid adds one to, if any.
Vote(paths) ==
    IF ~IsNone(paths.unified) THEN Some(<<"unified", Val(paths.unified)>>)
    ELSE IF ~IsNone(paths.memory) THEN Some(<<"memory", Val(paths.memory)>>)
    ELSE None

\* counter[key] += 1 on a defaultdict(int); the dict keeps insertion order.
CounterAdd(counter, key) ==
    IF \E i \in DOMAIN counter : counter[i].key = key
    THEN [i \in DOMAIN counter |->
            IF counter[i].key = key
            THEN [counter[i] EXCEPT !.n = @ + 1] ELSE counter[i]]
    ELSE Append(counter, [key |-> key, n |-> 1])

InspectedAll(job_pids) == Len(job_pids)

\* Line 296: job_pids[:MAX_SAMPLE_PIDS], as the number of pids it holds.
Inspected(job_pids) == Min(MAX_SAMPLE_PIDS, Len(job_pids))

\* max(counter.items(), key=lambda kv: kv[1])[0]: the first item of the
\* largest count.
MaxItem(counter) ==
    LET i == CHOOSE i \in DOMAIN counter :
                /\ \A j \in DOMAIN counter : counter[j].n <= counter[i].n
                /\ \A j \in 1..(i - 1) : counter[j].n < counter[i].n
    IN counter[i].key

\* Lines 296-301: one pass of the for loop.
detect_job_cgroup_for ==
    /\ pc = "detect_for"
    /\ dj.i <= Inspected(dj.job_pids)
    /\ LET v == Vote(cgroup_paths_for_pid(procfs, dj.job_pids[dj.i]))
       IN dj' = [dj EXCEPT !.i = @ + 1,
                           !.counter = IF IsNone(v) THEN @
                                       ELSE CounterAdd(@, Val(v))]
    /\ pc' = "detect_for"
    /\ UNCHANGED <<s1, s2, interval, pattern, compiled, agg, state, pidset,
                   cg_mem, cycle, pushed, target, bfs, resolved, rc, keybuf,
                   calls, screen, printed, procfs, retry, sp>>

\* Lines 302-304
detect_job_cgroup_return ==
    /\ pc = "detect_for"
    /\ dj.i > Inspected(dj.job_pids)
    /\ dj' = [dj EXCEPT !.result = IF dj.counter = <<>> THEN None
                                   ELSE Some(MaxItem(dj.counter))]
    /\ pc' = "detect_done"
    /\ UNCHANGED <<s1, s2, interval, pattern, compiled, agg, state, pidset,
                   cg_mem, cycle, pushed, target, bfs, resolved, rc, keybuf,
                   calls, screen, printed, procfs, retry, sp>>

PathA == <<"/", "a">>
PathB == <<"/", "b">>
NoPaths == [unified |-> None, memory |-> None]

\* What /proc/<pid>/cgroup can give for one pid.
CgroupDicts ==
    {NoPaths,
     [unified |-> Some(PathA), memory |-> None],
     [unified |-> Some(PathB), memory |-> None],
     [unified |-> None, memory |-> Some(PathA)],
     [unified |-> Some(PathA), memory |-> Some(PathB)]}

\* A job of at least MAX_SAMPLE_PIDS processes: the first 199 have no cgroup
\* line that is read, process 200 has the dict at200 and the processes after
\* it the dict past.
LargeJob(n, at200, past) ==
    [p \in 1..n |-> IF p < MAX_SAMPLE_PIDS THEN NoPaths
                    ELSE IF p = MAX_SAMPLE_PIDS THEN at200 ELSE past]

\* detect_job_cgroup(job_pids) is entered.
DetectCall(job_pids) == [NoDetect EXCEPT !.job_pids = job_pids]

InitDetect ==
    /\ pc = "detect_for"
    /\ \/ \E ps \in SUBSET (1..MaxDetectPids) :
             /\ dj = DetectCall(Ascending(ps))
             /\ procfs \in [ps -> CgroupDicts]
       \/ \E extra \in 0..MaxExtraPids, at200 \in CgroupDicts,
             past \in CgroupDicts :
             /\ dj = DetectCall([k \in 1..(MAX_SAMPLE_PIDS + extra) |-> k])
             /\ procfs = LargeJob(MAX_SAMPLE_PIDS + extra, at200, past)
    /\ pidset = {}
    /\ retry = NoRetry
    /\ sp = NoSampleProcs
    /\ s1 = <<>>
    /\ s2 = <<>>
    /\ interval = DEFAULT_INTERVAL
    /\ pattern = None
    /\ compiled = None
    /\ agg = None
    /\ state = UIStateInit(DEFAULT_INTERVAL, None)
    /\ cg_mem = None
    /\ cycle = 0
    /\ pushed = [cpu |-> <<>>, mem |-> <<>>]
    /\ NotResolving
    /\ NothingShown
    /\ resolved = {}
    /\ rc = None
    /\ keybuf = <<>>
    /\ calls = NoCalls

NextDetect ==
    \/ detect_job_cgroup_for
    \/ detect_job_cgroup_return

SpecDetect == InitDetect /\ [][NextDetect]_vars

DetectDone == pc = "detect_done"

\* The pids detect_job_cgroup is to look at: the first MAX_SAMPLE_PIDS of
\* the list.
FirstPids ==
    {dj.job_pids[k] : k \in 1..Min(MAX_SAMPLE_PIDS, Len(dj.job_pids))}

CgroupKeys ==
    {<<kind, path>> : kind \in {"unified", "memory"}, path \in {PathA, PathB}}

\* The votes of the pids in ps for a (kind, path) pair.
VotesFor(ps, key) ==
    Cardinality({p \in ps :
        IF key[1] = "unified" THEN procfs[p].unified = Some(key[2])
        ELSE IsNone(procfs[p].unified) /\ procfs[p].memory = Some(key[2])})

\* C26: detect_job_cgroup never looks past the MAX_SAMPLE_PIDS-th pid; it
\* returns nothing exactly when none of the first MAX_SAMPLE_PIDS pids has a
\* unified or a memory path; otherwise it returns a pair that at least one
\* of these pids votes for and that no other pair outvotes, a pid voting for
\* its unified path when it has one and for its memory path otherwise.
C26_DetectVotesOverFirstPids ==
    /\ dj.i <= MAX_SAMPLE_PIDS + 1
    /\ DetectDone =>
        LET r == dj.result
        IN /\ IsNone(r) = (\A key \in CgroupKeys : VotesFor(FirstPids, key) = 0)
           /\ ~IsNone(r) =>
                 /\ Val(r) \in CgroupKeys
                 /\ VotesFor(FirstPids, Val(r)) >= 1
                 /\ \A key \in CgroupKeys :
                       VotesFor(FirstPids, key) <= VotesFor(FirstPids, Val(r))

\* A job of 202 processes: the 200th is in cgroup /a, the two after it in
\* /b; /a is returned on one vote.
C26_Witness ==
    /\ DetectDone
    /\ Len(dj.job_pids) = MAX_SAMPLE_PIDS + 2
    /\ procfs[MAX_SAMPLE_PIDS + 1].unified = Some(PathB)
    /\ procfs[MAX_SAMPLE_PIDS + 2].unified = Some(PathB)
    /\ dj.result = Some(<<"unified", PathA>>)

\* C29: in a cycle after the first, when the membership just resolved holds
\* a pid that the previous cycle did not sample, the cycle's snapshot counts
\* at least one new pid and its fork rate is positive.
C29_ForkBetweenCyclesIsCounted ==
    (/\ pc = "render"
     /\ cycle >= 2
     /\ resolved \ calls.sampled_before # {})
        => /\ Val(agg).new_pids >= 1
           /\ RatLess(Zero, Val(agg).fork_rate_hz)

\* C30: state.cgroup_kind_path is assigned by the step before the loop and
\* by no other step (no cycle step, no key): it is what detection gave for
\* the initial pid set, and unknown when that set was empty; and then every
\* cycle shows the summed RSS flagged [sum RSS], whatever is resolved later.
C30_CgroupDeterminedOnce ==
    /\ [][/\ pc # "start" => state'.cgroup_kind_path = state.cgroup_kind_path
          /\ pc = "start" =>
                /\ state'.cgroup_kind_path \in DetectOutcomes
                /\ resolved' = {} => IsNone(state'.cgroup_kind_path)]_vars
    /\ [](calls.initial = Some({}) =>
            /\ IsNone(state.cgroup_kind_path)
            /\ IsNone(cg_mem)
            /\ pc = "poll" =>
                  /\ Val(screen).mem_source = "[sum RSS]"
                  /\ Val(screen).mem_used = Val(agg).total_rss_bytes)

\* Nothing was resolved before the loop; the second cycle resolved both
\* processes while the cgroup file held a value and cgroup reading was on:
\* the screen shows their summed RSS.
C30_Witness ==
    /\ pc = "poll"
    /\ cycle = 2
    /\ calls.initial = Some({})
    /\ resolved = Pids
    /\ state.use_cgroup_mem
    /\ calls.cg_file = Some(CgBytes)
    /\ Val(screen).pid_count = MaxPid
    /\ Val(screen).mem_source = "[sum RSS]"
    /\ Val(screen).mem_used = 5

====
